---- MODULE Spec2Model ----
(***************************************************************************)
(* Media import handlers of the video library: the synchronisation         *)
(* lifecycle (StartSynchronisation / AddImportedItem /                     *)
(* FinishSynchronisation), the resolution of parent tvshows by the Episode *)
(* and Season handlers, and the removal / cleanup of movie sets, tvshows   *)
(* and seasons.                                                            *)
(***************************************************************************)
EXTENDS Integers, Sequences, FiniteSets, TLC

VARIABLES
  handler,      \* media type of the handler the caller drives
  manager,      \* what m_importHandlerManager yields for MediaTypeTvShow
  openCount,    \* open count of the handler's m_db (IsOpen() <=> openCount > 0)
  inTxn,        \* a transaction is active on m_db
  db,           \* library content as seen through m_db
  committed,    \* durable library content (what every other connection sees)
  nextId,       \* next row id the storage hands out
  m_tvshows,    \* title -> tvshow items known to the run (Episode/Season handler)
  m_sourceIds,  \* source identifiers whose path row was added in this run
  announced,    \* announcements emitted and successful calls made
  run,          \* the caller's view of the run
  calls,        \* number of calls made so far (bounds the behaviours)
  nested,       \* connections used by the nested calls to the tvshow handler
  runShows,     \* the tvshow rows the child handler's Adds created in this run
  databaseManager, \* CDatabaseManager: m_dbStatus and where Initialize stands
  ret           \* what the last call returned and left in the item

vars == <<handler, manager, openCount, inTxn, db, committed, nextId, m_tvshows,
          m_sourceIds, announced, run, calls, nested, runShows,
          databaseManager, ret>>

----------------------------------------------------------------------------
\* CDatabaseManager: the status of the databases.

\* Most calls of Initialize and Deinitialize in a behaviour.
MaxInitializes == 2

\* DB_STATUS
DB_UPDATING == "Updating"
DB_READY == "Ready"
DB_FAILED == "Failed"

\* An order with the video database ahead of the texture database.
DatabasesVideoFirst == <<"addons", "view", "video", "music", "texture", "pvr", "epg">>

\* The databases in the order in which Initialize updates them, by the names
\* under which their status is kept.
Databases == <<"addons", "view", "texture", "music", "video", "pvr", "epg">>
DatabaseNames == {Databases[i] : i \in 1..Len(Databases)}

\* m_dbStatus is a map from names to DB_STATUS; this is the empty one.
NoStatus == [name \in {} |-> DB_FAILED]

\* The manager after construction: no status, no call under way. position is
\* the index in Databases of the database Initialize is at (0 outside of
\* Initialize) and updating says that its Update is running. addonsOnly is
\* the argument of the last Initialize or Deinitialize and opened says whether
\* that Deinitialize could open the video database. recorded and
\* deinitialized are history: the status the last UpdateDatabase step gave
\* for the name ("none" before the first), and the names that had none since
\* the last Deinitialize.
NoDatabaseManager ==
  [m_dbStatus |-> NoStatus,
   position |-> 0,
   updating |-> FALSE,
   addonsOnly |-> FALSE,
   opened |-> FALSE,
   calls |-> 0,
   recorded |-> [name \in DatabaseNames |-> "none"],
   deinitialized |-> DatabaseNames]

\* A lookup that takes every status but DB_FAILED for a usable database.
CanOpenUnlessFailed(name) ==
  IF name \in DOMAIN databaseManager.m_dbStatus
  THEN databaseManager.m_dbStatus[name] # DB_FAILED
  ELSE FALSE

\* CanOpen: the status of the name is DB_READY; false for a name without
\* status.
CanOpen(name) ==
  IF name \in DOMAIN databaseManager.m_dbStatus
  THEN databaseManager.m_dbStatus[name] = DB_READY
  ELSE FALSE

\* UpdateStatus: m_dbStatus[name] = status.
UpdateStatus(m_dbStatus, name, status) ==
  [n \in DOMAIN m_dbStatus \cup {name} |->
     IF n = name THEN status ELSE m_dbStatus[n]]

\* A Deinitialize that leaves the map as it is.
DeinitializeKeepsStatus(dm) == dm

\* Deinitialize: the map of statuses is cleared. (Disabling the imported
\* items and unregistering the import repositories do not touch the map.)
DeinitializeOf(dm) ==
  [dm EXCEPT !.m_dbStatus = NoStatus, !.deinitialized = DatabaseNames]

----------------------------------------------------------------------------
\* Bounds of the model.
MaxStarts == 2
MaxAdds == 2
MaxRemovals == 3
MaxChildren == 3

HandlerTypes == {"movie", "movieset", "tvshow", "season", "episode", "musicvideo"}
Imports == {"A", "B"}
ThisImport == "A"
Titles == {"Foo", "Bar"}
NoId == -1

\* Paths are sequences of directory names below the source's base path.
BasePath == <<>>
GetParentPath(p) == IF Len(p) = 0 THEN p ELSE SubSeq(p, 1, Len(p) - 1)
IsPrefix(q, p) == Len(q) <= Len(p) /\ SubSeq(p, 1, Len(q)) = q
PathHasParent(p, parent) == Len(parent) > 0 /\ IsPrefix(parent, p)

----------------------------------------------------------------------------
\* Storage (CVideoDatabase), as far as the handlers use it.

EmptyDb == [shows |-> {}, seasons |-> {}, episodes |-> {}, movies |-> {},
            sets |-> {}, musicvideos |-> {}, links |-> {}, paths |-> {},
            enabled |-> FALSE]

Link(type, id, import) == [type |-> type, id |-> id, import |-> import]

\* SetImportForItem: registers the (import, mediaType) tag of a row.
DbSetImportForItem(d, type, id, import) ==
  [d EXCEPT !.links = @ \cup {Link(type, id, import)}]

\* RemoveImportFromItem: removes the (import, mediaType) tag of a row.
DbRemoveImportFromItem(d, type, id, import) ==
  [d EXCEPT !.links = @ \ {Link(type, id, import)}]

\* Ids of the rows of a type that carry the tag of an import.
LinkedIds(d, type, import) ==
  {l.id : l \in {x \in d.links : x.type = type /\ x.import = import}}

\* SetImportItemsEnabled for the handler's media type and import.
DbSetImportItemsEnabled(d, enable) == [d EXCEPT !.enabled = enable]

\* A database manager that leaves the imported items as they are.
KeepImportItemsEnabled(d, opened) == d

\* CDatabaseManager, "if (videodb.Open()) videodb.SetImportItemsEnabled(false)":
\* the imported items of every import and media type are disabled.
DisableImportItems(d, opened) ==
  IF opened THEN DbSetImportItemsEnabled(d, FALSE) ELSE d

\* AddPath(sourceId): the synthetic path row of the source.
DbAddPath(d, import) == [d EXCEPT !.paths = @ \cup {import}]

\* What is durable after a write through m_db: inside a transaction nothing
\* new, outside of one the write itself.
Durable(d) == IF inTxn THEN committed ELSE d

----------------------------------------------------------------------------
\* Announcements and the caller's bookkeeping.

Announce(a, what) == [a EXCEPT ![what] = @ + 1]

\* ret: the call made last (op), what it returned (ok), and for an
\* AddImportedItem the m_iDbId and m_iIdShow it left in the item, how the parent
\* tvshow was obtained (via: "map", "handler", "fallback") and the id under
\* which the parent is stored (parentId).
\* handlerId is the m_iDbId the tvshow handler left in the synthesised tvshow.
\* For a removal or cleanup: the import, the ids of the parents the call went
\* over (items), the storage call that failed (fault) and what became of the
\* transaction the call began (txn: "none" if it began none, "committed",
\* "rolledback"). For a FinishSynchronisation: the calls it made, in their
\* order (order).
NoRet == [op |-> "none", ok |-> FALSE, showTitle |-> "", dbId |-> NoId,
          showId |-> NoId, via |-> "none", parentId |-> NoId,
          handlerId |-> NoId, import |-> "", items |-> {}, fault |-> "none",
          txn |-> "none", order |-> <<>>]

----------------------------------------------------------------------------
\* Items. An incoming item carries the fields the handlers read; a tvshow item
\* of the run's map carries the fields FindTvShowId reads.

AllTitles == Titles \cup {""}
HasYear(y) == y > 0
HasUniqueID(u) == u > 0

\* Where a call can be passed any item pointer, the item is a null pointer, a
\* CFileItem without a video tag, or a CFileItem with one.
NullItem == [kind |-> "null"]
NoTagItem == [kind |-> "notag"]
HasVideoInfoTag(item) == item.kind = "video"

Item(title, showTitle, year, uid, path, season) ==
  [title |-> title, showTitle |-> showTitle, year |-> year, uid |-> uid,
   path |-> path, season |-> season]

ShowItem(dbId, title, year, path) ==
  [dbId |-> dbId, title |-> title, year |-> year, path |-> path]

\* The items a source delivers, per media type.
EpisodeItems ==
  { Item("Pilot", "Foo", 0, 0, <<1, 1, 1>>, 1),
    Item("Second", "Foo", 0, 0, <<1, 1, 2>>, 1),
    Item("Other", "Bar", 2, 0, <<2, 1>>, 1) }
SeasonItems ==
  { Item("Season 1", "Foo", 0, 0, <<1, 1>>, 1),
    Item("Season 2", "Foo", 0, 0, <<1, 2>>, 2),
    Item("Season 1", "Bar", 2, 0, <<2, 1>>, 1) }
TvShowItems ==
  { Item("Foo", "Foo", 0, 0, <<1>>, 0),
    Item("Foo", "Foo", 1, 1, <<3>>, 0),
    Item("Bar", "Bar", 2, 0, <<2>>, 0) }
PlainItems ==
  { Item("One", "", 0, 0, <<4>>, 0),
    Item("Two", "", 0, 0, <<5>>, 0) }

\* Which storage calls of one AddImportedItem fail (return an id <= 0 or false).
\* gi: GetTvShowInfo, hw / ht: SetDetailsForTvShow / SetImportForItem inside the
\* tvshow handler, fw: SetDetailsForTvShow of the direct fallback, cw / ct: the
\* write / SetImportForItem of the item itself.
\* One call fails, or the tvshow handler and the fallback both fail.
NoFaults == [gi |-> FALSE, hw |-> FALSE, ht |-> FALSE, fw |-> FALSE,
             cw |-> FALSE, ct |-> FALSE]
Faults ==
  { NoFaults,
    [NoFaults EXCEPT !.gi = TRUE], [NoFaults EXCEPT !.hw = TRUE],
    [NoFaults EXCEPT !.ht = TRUE], [NoFaults EXCEPT !.cw = TRUE],
    [NoFaults EXCEPT !.ct = TRUE],
    [NoFaults EXCEPT !.hw = TRUE, !.fw = TRUE],
    [NoFaults EXCEPT !.ht = TRUE, !.fw = TRUE] }

\* A sequence of the elements of a set of rows, ordered by id.
RECURSIVE ById(_)
ById(S) ==
  IF S = {} THEN <<>>
  ELSE LET m == CHOOSE x \in S : \A y \in S : x.id <= y.id
       IN <<m>> \o ById(S \ {m})

----------------------------------------------------------------------------
\* CVideoImportHandler

\* PrepareItem: adds the source's path row unless the run has cached it.
PrepareItemDb(d, sourceIds) ==
  IF ThisImport \in sourceIds THEN d ELSE DbAddPath(d, ThisImport)

\* GetLocalItems(videodb, import, items) of the tvshow handler.
TvShowGetLocalItems(d, import) ==
  {s \in d.shows : s.id \in LinkedIds(d, "tvshow", import)}

\* The map of tvshows StartSynchronisation of the Episode and the Season
\* handler build from the local tvshows.
BuildTvShowsMap(tvshows) ==
  [t \in AllTitles |->
     IF t = "" THEN <<>>
     ELSE LET rows == ById({s \in tvshows : s.title = t})
          IN [i \in 1..Len(rows) |->
                ShowItem(rows[i].id, rows[i].title, rows[i].year, rows[i].path)]]

EmptyMap == [t \in AllTitles |-> <<>>]

\* The calls to the tvshow handler a child handler has made, with the
\* connection each of them worked on: "run" is the m_db of the handler that
\* runs the synchronisation, "own" the m_db of the tvshow handler created
\* for the call.
NestedCall(call, conn) == [call |-> call, conn |-> conn]

\* The bookkeeping every StartSynchronisation call shares: the call is
\* counted, the caller sees its result, the announcement is counted.
StartReturns(opened, result) ==
  /\ calls' = [calls EXCEPT !.starts = @ + 1]
  /\ run' = IF result THEN "running" ELSE "failed"
  /\ runShows' = {}
  /\ ret' = [NoRet EXCEPT !.op = "Start", !.ok = result]
  /\ announced' = [announced EXCEPT
                     !.started = @ + (IF opened THEN 1 ELSE 0),
                     !.startOk = @ + (IF result THEN 1 ELSE 0)]

\* CVideoImportHandler::StartSynchronisation: clears the source cache, opens
\* m_db, begins the transaction and announces OnScanStarted.
BaseStartSynchronisation(openOk) ==
  /\ m_sourceIds' = {}
  /\ openCount' = IF openOk THEN openCount + 1 ELSE openCount
  /\ inTxn' = IF openOk THEN TRUE ELSE inTxn

\* The orchestrator starts a run for the import only while no run for it is
\* in flight.
OrchestratorReentrant(r) == TRUE
OrchestratorMayStart(r) == r # "running"

\* StartSynchronisation of the handlers that do not override it.
VideoStartSynchronisation ==
  /\ OrchestratorMayStart(run)
  /\ handler \notin {"episode", "season"}
  /\ calls.starts < MaxStarts
  /\ \E openOk \in BOOLEAN :
       /\ BaseStartSynchronisation(openOk)
       /\ StartReturns(openOk, openOk)
  /\ UNCHANGED <<databaseManager, handler, manager, db, committed, nextId, m_tvshows, nested>>

\* CEpisodeImportHandler::StartSynchronisation: the local tvshows are read
\* through the tvshow handler on the run's own m_db.
EpisodeStartSynchronisation ==
  /\ OrchestratorMayStart(run)
  /\ handler = "episode"
  /\ calls.starts < MaxStarts
  /\ \E openOk \in BOOLEAN, queryOk \in BOOLEAN :
       /\ BaseStartSynchronisation(openOk)
       /\ IF ~openOk \/ manager # "ok"
          THEN /\ StartReturns(openOk, FALSE)
               /\ UNCHANGED <<m_tvshows, nested>>
          ELSE /\ nested' = nested \cup {NestedCall("GetLocalItems", "run")}
               /\ StartReturns(openOk, queryOk)
               /\ m_tvshows' = IF queryOk
                               THEN BuildTvShowsMap(TvShowGetLocalItems(db, ThisImport))
                               ELSE m_tvshows
  /\ UNCHANGED <<databaseManager, handler, manager, db, committed, nextId>>

\* CSeasonImportHandler::StartSynchronisation: the local tvshows are read with
\* GetLocalItems(import, items) of a tvshow handler created for the call,
\* which opens and closes that handler's own m_db.
SeasonStartSynchronisation ==
  /\ OrchestratorMayStart(run)
  /\ handler = "season"
  /\ calls.starts < MaxStarts
  /\ \E openOk \in BOOLEAN, ownOpenOk \in BOOLEAN, queryOk \in BOOLEAN :
       /\ BaseStartSynchronisation(openOk)
       /\ IF ~openOk \/ manager # "ok"
          THEN /\ StartReturns(openOk, FALSE)
               /\ UNCHANGED <<m_tvshows, nested>>
          ELSE /\ nested' = nested \cup {NestedCall("GetLocalItems", "own")}
               /\ StartReturns(openOk, ownOpenOk /\ queryOk)
               /\ m_tvshows' = IF ownOpenOk /\ queryOk
                               THEN BuildTvShowsMap(TvShowGetLocalItems(committed, ThisImport))
                               ELSE m_tvshows
  /\ UNCHANGED <<databaseManager, handler, manager, db, committed, nextId>>

\* CVideoImportHandler::SetImportedItemsEnabled: m_db.Open() on the open m_db
\* only raises its open count, which the Close() that follows lowers again.
SetImportedItemsEnabled(d, enable) == DbSetImportItemsEnabled(d, enable)

\* m_db.IsOpen()
IsOpenOrClosed(count) == count >= 0
IsOpen(count) == count > 0

\* The calls FinishSynchronisation makes on an open session, in the order of
\* its statements.
FinishStepsAnnouncedOpen ==
  <<"SetImportedItemsEnabled", "CommitTransaction", "Announce", "Close",
    "m_sourceIds.clear">>
FinishSteps ==
  <<"SetImportedItemsEnabled", "CommitTransaction", "Close", "m_sourceIds.clear",
    "Announce">>

\* One of these calls on the state h of the handler; a write through m_db is
\* durable at once unless a transaction is active.
FinishStep(h, step) ==
  LET h1 == CASE step = "SetImportedItemsEnabled" ->
                   [h EXCEPT !.db = SetImportedItemsEnabled(@, TRUE),
                             !.committed = IF h.inTxn THEN @
                                           ELSE SetImportedItemsEnabled(h.db, TRUE)]
              [] step = "CommitTransaction" ->
                   [h EXCEPT !.committed = h.db, !.inTxn = FALSE]
              [] step = "Close" ->
                   [h EXCEPT !.openCount = @ - 1]
              [] step = "m_sourceIds.clear" ->
                   [h EXCEPT !.m_sourceIds = {}]
              [] step = "Announce" ->
                   [h EXCEPT !.announced = [@ EXCEPT !.finished = @ + 1,
                                                     !.finishOk = @ + 1]]
  IN [h1 EXCEPT !.order = Append(@, step)]

RECURSIVE FinishEach(_, _)
FinishEach(h, steps) ==
  IF Len(steps) = 0 THEN h ELSE FinishEach(FinishStep(h, steps[1]), Tail(steps))

\* CVideoImportHandler::FinishSynchronisation.
FinishSynchronisation ==
  /\ IF ~IsOpen(openCount)
     THEN /\ ret' = [NoRet EXCEPT !.op = "Finish"]
          /\ UNCHANGED <<openCount, inTxn, db, committed, m_sourceIds, announced, run>>
     ELSE \E h \in {FinishEach([db |-> db, committed |-> committed, inTxn |-> inTxn,
                                 openCount |-> openCount, m_sourceIds |-> m_sourceIds,
                                 announced |-> announced, order |-> <<>>],
                                FinishSteps)} :
          /\ db' = h.db
          /\ committed' = h.committed
          /\ inTxn' = h.inTxn
          /\ openCount' = h.openCount
          /\ m_sourceIds' = h.m_sourceIds
          /\ announced' = h.announced
          /\ run' = "done"
          /\ ret' = [NoRet EXCEPT !.op = "Finish", !.ok = TRUE, !.order = h.order]
  /\ UNCHANGED <<databaseManager, handler, manager, nextId, m_tvshows, nested, calls, runShows>>

----------------------------------------------------------------------------
\* CTvShowImportHandler::AddImportedItem(videodb, import, item)

ShowRow(id, item) ==
  [id |-> id, title |-> item.title, year |-> item.year, uid |-> item.uid,
   path |-> item.path, paths |-> {item.path}]

\* GetTvShowsByName
TvShowsByName(d, title) == {s \in d.shows : s.title = title}

\* A match by the scraper identifier alone.
IsExistingTvShowByUniqueID(s, item) ==
  HasUniqueID(s.uid) /\ s.uid = item.uid

\* "check if the scraper identifier or the title and year match"
IsExistingTvShow(s, item) ==
  \/ HasUniqueID(s.uid) /\ s.uid = item.uid
  \/ HasYear(s.year) /\ s.year = item.year /\ s.title = item.title

\* The local tvshow the item is merged into: the first exact match, else the
\* first tvshow of the same title when the item has neither a unique id nor a
\* year; <<>> if there is none. A tvshow whose GetTvShowInfo fails is dropped.
FirstExistingTvShow(cands, item) ==
  LET hits == {i \in 1..Len(cands) : IsExistingTvShow(cands[i], item)}
  IN IF hits # {}
     THEN <<cands[CHOOSE i \in hits : \A j \in hits : i <= j]>>
     ELSE IF Len(cands) > 0 /\ ~HasUniqueID(item.uid) /\ ~HasYear(item.year)
          THEN <<cands[1]>>
          ELSE <<>>

ExistingTvShow(d, item, infoFails) ==
  FirstExistingTvShow(IF infoFails THEN <<>> ELSE ById(TvShowsByName(d, item.title)),
                      item)

\* SetDetailsForTvShow with the id of an existing tvshow: the path is added
\* to the tvshow, whose details are the ones passed (its own).
DbAddPathToTvShow(d, show, path) ==
  [d EXCEPT !.shows = (@ \ {show}) \cup {[show EXCEPT !.paths = @ \cup {path}]}]

\* SetDetailsForTvShow without an id: a new tvshow row.
DbAddTvShow(d, id, item) == [d EXCEPT !.shows = @ \cup {ShowRow(id, item)}]

\* The result of the call: the storage content, the next free id, what the
\* call returns and the m_iDbId it leaves in the item.
\* The handler's own source cache is passed as sourceIds.
\* "if (info->m_iDbId <= 0) return false; return SetImportForItem(videodb, import, item)"
TvShowSetImportForItem(d1, next1, dbId, f) ==
  IF dbId <= 0 \/ f.ht
  THEN [db |-> d1, next |-> next1, ok |-> FALSE, dbId |-> dbId]
  ELSE [db |-> DbSetImportForItem(d1, "tvshow", dbId, ThisImport),
        next |-> next1, ok |-> TRUE, dbId |-> dbId]

\* The prepared item is merged into the existing tvshow or stored as a new one.
TvShowSetDetails(d0, existing, next, item, f) ==
  IF f.hw THEN TvShowSetImportForItem(d0, next, NoId, f)
  ELSE IF Len(existing) > 0
       THEN TvShowSetImportForItem(DbAddPathToTvShow(d0, existing[1], item.path),
                                   next, existing[1].id, f)
       ELSE TvShowSetImportForItem(DbAddTvShow(d0, next, item), next + 1, next, f)

TvShowAddImportedItem(d, sourceIds, next, item, f) ==
  TvShowSetDetails(PrepareItemDb(d, sourceIds),
                   ExistingTvShow(PrepareItemDb(d, sourceIds), item, f.gi),
                   next, item, f)

----------------------------------------------------------------------------
\* FindTvShowId of the Episode and the Season handler: the ids it can return.
\* The candidates of a title are a std::set of item pointers, so the order in
\* which several of them are tried is the order of their addresses.
FindTvShowId(map, item) ==
  IF item.showTitle = "" THEN {NoId}
  ELSE LET c == map[item.showTitle]
       IN IF Len(c) = 0 THEN {NoId}
          ELSE IF Len(c) = 1 THEN {c[1].dbId}
          ELSE LET m == {i \in 1..Len(c) : PathHasParent(item.path, c[i].path)}
               IN IF m = {} THEN {NoId} ELSE {c[i].dbId : i \in m}

\* "add the tvshow to the tvshow map"
AddToTvShowsMap(map, title, tvshowItem) ==
  [map EXCEPT ![title] = Append(@, tvshowItem)]

\* The tvshow an episode or a season synthesises for its show title.
SynthesisedTvShow(item, path) == Item(item.showTitle, item.showTitle, item.year, 0, path, 0)

\* "try to find a proper path by going up in the path hierarchy twice"
ShowPathUpOnce(path, m_basePath) ==
  IF GetParentPath(path) # m_basePath THEN GetParentPath(path) ELSE m_basePath
ShowPathOf(path, m_basePath) ==
  LET testPath == GetParentPath(path)
  IN IF testPath # m_basePath
     THEN IF GetParentPath(testPath) # m_basePath THEN GetParentPath(testPath)
          ELSE testPath
     ELSE m_basePath

EpisodeShowPath(item) == ShowPathOf(item.path, BasePath)

\* What every AddImportedItem call leaves: the storage written through m_db,
\* the source cached by PrepareItem, the call counted.
AddWrites(d, c, next, map, shows, nest, r) ==
  /\ db' = d
  /\ committed' = c
  /\ nextId' = next
  /\ m_tvshows' = map
  /\ m_sourceIds' = m_sourceIds \cup {ThisImport}
  /\ runShows' = runShows \cup shows
  /\ nested' = nested \cup nest
  /\ calls' = [calls EXCEPT !.adds = @ + 1]
  /\ ret' = r
  /\ UNCHANGED <<databaseManager, handler, manager, openCount, inTxn, announced, run>>

AddReturns(d, next, map, shows, nest, r) ==
  AddWrites(d, Durable(d), next, map, shows, nest, r)

NewShow(title, id) == [title |-> title, id |-> id]

\* The tvshow rows of d that are not rows of d0.
NewShows(d0, d) ==
  {NewShow(s.title, s.id) : s \in {x \in d.shows : x.id \notin {y.id : y \in d0.shows}}}

EpisodeRow(id, item, showId) ==
  [id |-> id, showId |-> showId, showTitle |-> item.showTitle,
   season |-> item.season, path |-> item.path]

\* SetDetailsForEpisode without an id: a new episode row.
DbAddEpisode(d, id, item, showId) ==
  [d EXCEPT !.episodes = @ \cup {EpisodeRow(id, item, showId)}]

\* CEpisodeImportHandler::AddImportedItem(videodb, import, item), called on the
\* handler's m_db.
EpisodeAddImportedItem ==
  /\ run = "running"
  /\ handler = "episode"
  /\ calls.adds < MaxAdds
  /\ \E item \in EpisodeItems, f \in Faults :
     \E found \in FindTvShowId(m_tvshows, item) :
     \E d0 \in {PrepareItemDb(db, m_sourceIds)} :
     \E tvshow \in {SynthesisedTvShow(item, EpisodeShowPath(item))} :
     \* "try to use a tvshow-specific import handler"
     \E h \in {IF manager = "ok"
               THEN TvShowAddImportedItem(d0, {}, nextId, tvshow, f)
               ELSE [db |-> d0, next |-> nextId, ok |-> FALSE, dbId |-> NoId]} :
       LET \* "fall back to direct database access"
           fbId == IF f.fw THEN NoId ELSE h.next
           d1 == IF found > 0 THEN d0
                 ELSE IF h.ok \/ f.fw THEN h.db
                 ELSE DbAddTvShow(h.db, fbId, tvshow)
           next1 == IF found > 0 THEN nextId
                    ELSE IF h.ok \/ f.fw THEN h.next ELSE h.next + 1
           tvshowDbId == IF h.ok THEN h.dbId ELSE fbId
           \* the item put into the map keeps the m_iDbId the handler left in it
           tvshowItem == ShowItem(h.dbId, tvshow.title, tvshow.year, tvshow.path)
           showId == IF found > 0 THEN found ELSE tvshowDbId
           storedId == IF found > 0 THEN found ELSE IF h.ok THEN h.dbId ELSE fbId
           map1 == IF found > 0 THEN m_tvshows
                   ELSE AddToTvShowsMap(m_tvshows, tvshow.title, tvshowItem)
           via == IF found > 0 THEN "map" ELSE IF h.ok THEN "handler" ELSE "fallback"
           nest == IF found <= 0 /\ manager = "ok"
                   THEN {NestedCall("AddImportedItem", "run")} ELSE {}
           r == [NoRet EXCEPT !.op = "Add", !.showTitle = item.showTitle,
                              !.via = via,
                              !.handlerId = IF found > 0 THEN NoId ELSE h.dbId]
       IN IF found <= 0 /\ ~h.ok /\ fbId <= 0
          THEN \* the tvshow could not be stored: m_iIdShow is what FindTvShowId gave
               AddReturns(h.db, h.next, m_tvshows, NewShows(d0, h.db), nest,
                          [r EXCEPT !.showId = found])
          ELSE IF f.cw
          THEN AddReturns(d1, next1, map1, NewShows(d0, d1), nest,
                          [r EXCEPT !.showId = showId, !.parentId = storedId])
          ELSE LET d2 == DbAddEpisode(d1, next1, item, showId)
                   d3 == IF f.ct THEN d2
                         ELSE DbSetImportForItem(d2, "episode", next1, ThisImport)
               IN AddReturns(d3, next1 + 1, map1, NewShows(d0, d1), nest,
                             [r EXCEPT !.ok = ~f.ct, !.dbId = next1,
                                       !.showId = showId, !.parentId = storedId])

\* AddImportedItem(import, item) of a tvshow handler created for the call: it
\* works on that handler's own m_db. That the handler's m_db is not usable
\* shows as the failure of its first write (f.hw).
TvShowAddImportedItemOwn(d, next, item, f) ==
  TvShowAddImportedItem(d, {}, next, item, f)

\* What a write through another connection makes durable at once: the rows and
\* tags by which d differs from d0.
DurableOwn(c, d0, d) ==
  [c EXCEPT !.shows = (@ \ (d0.shows \ d.shows)) \cup (d.shows \ d0.shows),
            !.links = @ \cup (d.links \ d0.links),
            !.paths = @ \cup (d.paths \ d0.paths)]

SeasonRow(id, item, showId) ==
  [id |-> id, showId |-> showId, showTitle |-> item.showTitle,
   season |-> item.season]

\* GetSeasonId(idShow, season)
DbGetSeasonId(d, showId, season) ==
  LET rows == {x \in d.seasons : x.showId = showId /\ x.season = season}
  IN IF rows = {} THEN NoId ELSE (CHOOSE x \in rows : TRUE).id

\* SetDetailsForSeason without an id: a new season row.
DbAddSeason(d, id, item, showId) ==
  [d EXCEPT !.seasons = @ \cup {SeasonRow(id, item, showId)}]

\* CSeasonImportHandler::AddImportedItem(import, item).
SeasonAddImportedItem ==
  /\ run = "running"
  /\ handler = "season"
  /\ calls.adds < MaxAdds
  /\ \E item \in SeasonItems, f \in Faults :
     \E found \in FindTvShowId(m_tvshows, item) :
     \E d0 \in {PrepareItemDb(db, m_sourceIds)} :
     \* "try to find a proper path by going up in the path hierarchy once"
     \E tvshow \in {SynthesisedTvShow(item, GetParentPath(item.path))} :
     \* "try to use a tvshow-specific import handler"
     \E h \in {IF manager = "ok"
               THEN TvShowAddImportedItemOwn(d0, nextId, tvshow, f)
               ELSE [db |-> d0, next |-> nextId, ok |-> FALSE, dbId |-> NoId]} :
       LET \* "fall back to direct database access"
           fbId == IF f.fw THEN NoId ELSE h.next
           d1 == IF found > 0 THEN d0
                 ELSE IF h.ok \/ f.fw THEN h.db
                 ELSE DbAddTvShow(h.db, fbId, tvshow)
           \* durable: what the tvshow handler wrote through its own m_db
           C(d) == IF found > 0 THEN Durable(d)
                   ELSE DurableOwn(Durable(d), d0, h.db)
           next1 == IF found > 0 THEN nextId
                    ELSE IF h.ok \/ f.fw THEN h.next ELSE h.next + 1
           \* tvshow.m_iDbId is only assigned by the fallback
           tvshowDbId == IF h.ok THEN NoId ELSE fbId
           tvshowItem == ShowItem(h.dbId, tvshow.title, tvshow.year, tvshow.path)
           showId == IF found > 0 THEN found ELSE tvshowDbId
           storedId == IF found > 0 THEN found ELSE IF h.ok THEN h.dbId ELSE fbId
           map1 == IF found > 0 THEN m_tvshows
                   ELSE AddToTvShowsMap(m_tvshows, tvshow.title, tvshowItem)
           via == IF found > 0 THEN "map" ELSE IF h.ok THEN "handler" ELSE "fallback"
           nest == IF found <= 0 /\ manager = "ok"
                   THEN {NestedCall("AddImportedItem", "own")} ELSE {}
           \* "check if the season already exists locally"
           seasonId == DbGetSeasonId(d1, showId, item.season)
           r == [NoRet EXCEPT !.op = "Add", !.showTitle = item.showTitle,
                              !.via = via, !.showId = showId, !.parentId = storedId,
                              !.handlerId = IF found > 0 THEN NoId ELSE h.dbId]
           Tagged(d, id) == IF f.ct THEN d
                            ELSE DbSetImportForItem(d, "season", id, ThisImport)
       IN IF seasonId > 0
          THEN AddWrites(Tagged(d1, seasonId), C(Tagged(d1, seasonId)), next1, map1, NewShows(d0, d1), nest,
                         [r EXCEPT !.ok = ~f.ct, !.dbId = seasonId])
          ELSE IF f.cw
          THEN AddWrites(d1, C(d1), next1, map1, NewShows(d0, d1), nest, r)
          ELSE LET d2 == DbAddSeason(d1, next1, item, showId)
               IN AddWrites(Tagged(d2, next1), C(Tagged(d2, next1)), next1 + 1, map1,
                            NewShows(d0, d1), nest,
                            [r EXCEPT !.ok = ~f.ct, !.dbId = next1])

\* AddImportedItem of the tvshow handler when it is the handler of the run.
TvShowHandlerAddImportedItem ==
  /\ run = "running"
  /\ handler = "tvshow"
  /\ calls.adds < MaxAdds
  /\ \E item \in TvShowItems, f \in Faults :
     \E h \in {TvShowAddImportedItem(db, m_sourceIds, nextId, item, f)} :
          AddReturns(h.db, h.next, m_tvshows, {}, {},
                     [NoRet EXCEPT !.op = "Add", !.ok = h.ok, !.dbId = h.dbId])

\* The row a handler without a parent stores for an item.
PlainRow(id, item) == [id |-> id, title |-> item.title, path |-> item.path, setId |-> 0]

\* SetDetailsForMovie / SetDetailsForMovieSet / SetDetailsForMusicVideo
\* without an id: a new row of the table.
DbAddPlain(d, table, id, item) == [d EXCEPT ![table] = @ \cup {PlainRow(id, item)}]

\* AddImportedItem of the Movie, MovieSet and MusicVideo handlers: prepare
\* the item, store it, tag it.
PlainAddImportedItem(type, table) ==
  /\ run = "running"
  /\ handler = type
  /\ calls.adds < MaxAdds
  /\ \E item \in PlainItems, f \in Faults :
       LET d0 == PrepareItemDb(db, m_sourceIds)
           d1 == DbAddPlain(d0, table, nextId, item)
           r == [NoRet EXCEPT !.op = "Add"]
       IN IF f.cw
          THEN AddReturns(d0, nextId, m_tvshows, {}, {}, r)
          ELSE IF f.ct
          THEN AddReturns(d1, nextId + 1, m_tvshows, {}, {}, [r EXCEPT !.dbId = nextId])
          ELSE AddReturns(DbSetImportForItem(d1, type, nextId, ThisImport),
                          nextId + 1, m_tvshows, {}, {},
                          [r EXCEPT !.ok = TRUE, !.dbId = nextId])

MovieAddImportedItem == PlainAddImportedItem("movie", "movies")
MovieSetAddImportedItem == PlainAddImportedItem("movieset", "sets")
MusicVideoAddImportedItem == PlainAddImportedItem("musicvideo", "musicvideos")

----------------------------------------------------------------------------
\* The library before the first call: empty, or holding a tvshow "Foo" that
\* an earlier run of this import stored, or one that is local to the library.
FooRow == [id |-> 1, title |-> "Foo", year |-> 0, uid |-> 0, path |-> <<1>>,
           paths |-> {<<1>>}]
InitDbs ==
  { EmptyDb,
    [EmptyDb EXCEPT !.shows = {FooRow}],
    [EmptyDb EXCEPT !.shows = {FooRow}, !.links = {Link("tvshow", 1, ThisImport)}] }

Init ==
  /\ handler \in HandlerTypes
  /\ manager \in {"null", "nohandler", "ok"}
  /\ handler \notin {"episode", "season"} => manager = "ok"
  /\ openCount = 0
  /\ inTxn = FALSE
  /\ db \in InitDbs
  /\ handler \notin {"episode", "season", "tvshow"} => db = EmptyDb
  /\ handler \in {"episode", "season"} => LinkedIds(db, "tvshow", ThisImport) = {y.id : y \in db.shows}
  /\ committed = db
  /\ nextId = 2
  /\ m_tvshows = EmptyMap
  /\ m_sourceIds = {}
  /\ announced = [started |-> 0, startOk |-> 0, finished |-> 0, finishOk |-> 0]
  /\ run = "idle"
  /\ calls = [starts |-> 0, adds |-> 0, removals |-> 0]
  /\ nested = {}
  /\ runShows = {}
  /\ databaseManager = NoDatabaseManager
  /\ ret = NoRet

Next ==
  \/ VideoStartSynchronisation
  \/ EpisodeStartSynchronisation
  \/ SeasonStartSynchronisation
  \/ FinishSynchronisation
  \/ EpisodeAddImportedItem
  \/ SeasonAddImportedItem
  \/ TvShowHandlerAddImportedItem
  \/ MovieAddImportedItem
  \/ MovieSetAddImportedItem
  \/ MusicVideoAddImportedItem

Spec == Init /\ [][Next]_vars

----------------------------------------------------------------------------
\* Removal and cleanup of movie sets, tvshows and seasons.

\* The storage call of one removal or cleanup call that fails: m_db.Open(),
\* GetLocalItems, the count of the imported children, the count of all children.
RemovalFaults == {"none", "open", "local", "imported", "all"}

\* DeleteMovie / DeleteEpisode / DeleteSeason / DeleteTvShow: the row and its tags.
DbDeleteRow(d, table, type, id) ==
  [d EXCEPT ![table] = {x \in @ : x.id # id},
            !.links = {l \in @ : ~(l.type = type /\ l.id = id)}]

\* DeleteSet: the set and its tags; its movies belong to no set any more.
DbDeleteSet(d, id) ==
  LET d1 == DbDeleteRow(d, "sets", "movieset", id)
  IN [d1 EXCEPT !.movies = {IF m.setId = id THEN [m EXCEPT !.setId = 0] ELSE m : m \in @}]

\* RemovePathFromTvShow
DbRemovePathFromTvShow(d, id, path) ==
  [d EXCEPT !.shows = {IF s.id = id THEN [s EXCEPT !.paths = @ \ {path}] ELSE s : s \in @}]

\* DeletePath: no tvshow refers to the path any more.
DbDeletePath(d, path) ==
  [d EXCEPT !.shows = {[s EXCEPT !.paths = @ \ {path}] : s \in @}]

\* The list a query with sortingCountOnly yields: no items, and the number of
\* rows that match as its property "total".
CountOnly(rows) == [hasTotal |-> TRUE, total |-> Cardinality(rows)]

\* The list of a count-only query that succeeds without setting "total".
CountOnlyWithoutTotal(rows) == [hasTotal |-> FALSE, total |-> 0]

\* The count-only queries of a removal that succeed but report no total: the
\* count of the imported children, the count of all children, or both.
TotalFaults == {"importedTotal", "allTotal", "totals"}
CountOnlyUnder(rows, reported) ==
  IF reported THEN CountOnly(rows) ELSE CountOnlyWithoutTotal(rows)

\* A count that is never available.
GetTotalItemsMissing(itemsFromDb) == -1

\* GetTotalItemsInDb: the property "total" of the list, -1 without it.
GetTotalItemsInDb(itemsFromDb) ==
  IF itemsFromDb.hasTotal THEN itemsFromDb.total ELSE -1

\* What a removal or cleanup call leaves besides the storage: the call is
\* counted and the caller sees its result.
RemovalReturns(r) ==
  /\ ret' = r
  /\ UNCHANGED <<databaseManager, handler, manager, nextId, m_tvshows, m_sourceIds, announced,
                 run, nested, runShows>>

CountedRemovalReturns(r) ==
  /\ calls' = [calls EXCEPT !.removals = @ + 1]
  /\ RemovalReturns(r)

\* CVideoImportHandler::RemoveImportedItems(import) around the handler's
\* RemoveImportedItems(m_db, import), whose result is res: Open, BeginTransaction,
\* then CommitTransaction or RollbackTransaction, and Close.
VideoRemoveImportedItemsCommitted(fault, res, r) ==
  IF fault = "open"
  THEN /\ UNCHANGED <<db, committed, openCount, inTxn>>
       /\ CountedRemovalReturns(r)
  ELSE /\ db' = res.db
       /\ committed' = db'
       /\ inTxn' = FALSE
       /\ UNCHANGED openCount
       /\ CountedRemovalReturns([r EXCEPT !.ok = res.ok, !.txn = "committed"])
VideoRemoveImportedItems(fault, res, r) ==
  IF fault = "open"
  THEN /\ UNCHANGED <<db, committed, openCount, inTxn>>
       /\ CountedRemovalReturns(r)
  ELSE /\ db' = IF res.ok THEN res.db ELSE committed
       /\ committed' = db'
       /\ inTxn' = FALSE
       /\ UNCHANGED openCount
       /\ CountedRemovalReturns(
            [r EXCEPT !.ok = res.ok,
                      !.txn = IF res.ok THEN "committed" ELSE "rolledback"])

\* CVideoDatabase::DeleteItemsFromImport for the rows of a media type: all rows
\* that carry the tag of the import are deleted; a call that fails has deleted
\* the rows with the ids in done before it failed.
DbDeleteItemsFromImport(d, table, type, import, done) ==
  [d EXCEPT ![table] = {x \in @ : x.id \notin done},
            !.links = {l \in @ : ~(l.type = type /\ l.id \in done)}]

\* CVideoImportHandler::RemoveImportedItems(videodb, import) of the handlers
\* that do not override it.
VideoRemoveImportedItemsDb(d, table, type, import, failed, done) ==
  IF failed
  THEN [db |-> DbDeleteItemsFromImport(d, table, type, import, done), ok |-> FALSE]
  ELSE [db |-> DbDeleteItemsFromImport(d, table, type, import,
                                       LinkedIds(d, type, import)),
        ok |-> TRUE]

\* RemoveImportedItems(import) of the movie or the episode handler, on the
\* m_db of that handler.
ChildRemoveImportedItems(table, type) ==
  /\ ~inTxn
  /\ calls.removals < MaxRemovals
  /\ \E import \in Imports, openOk \in BOOLEAN, failed \in BOOLEAN :
     \E done \in SUBSET LinkedIds(db, type, import) :
       /\ failed => done # LinkedIds(db, type, import)
       /\ ~failed => done = {}
       /\ VideoRemoveImportedItems(
            IF openOk THEN "none" ELSE "open",
            VideoRemoveImportedItemsDb(db, table, type, import, failed, done),
            [NoRet EXCEPT !.op = "RemoveChildItems", !.import = import,
                          !.fault = IF ~openOk THEN "open"
                                    ELSE IF failed THEN "delete" ELSE "none",
                          !.items = LinkedIds(db, type, import)])

----------------------------------------------------------------------------
\* CMovieImportHandler and CEpisodeImportHandler: RemoveImportedItem

\* CMovieImportHandler::RemoveImportedItem, by the movie handler outside of a
\* transaction of the movie set handler.
MovieRemoveImportedItem ==
  /\ handler = "movieset"
  /\ ~inTxn
  /\ \E import \in Imports :
     \E id \in LinkedIds(db, "movie", import) :
       /\ db' = DbDeleteRow(db, "movies", "movie", id)
       /\ committed' = DbDeleteRow(committed, "movies", "movie", id)
       /\ RemovalReturns([NoRet EXCEPT !.op = "RemoveChild", !.ok = TRUE,
                                       !.import = import, !.dbId = id])
  /\ UNCHANGED <<openCount, inTxn, calls>>

\* CEpisodeImportHandler::RemoveImportedItem, by the episode handler outside of
\* a transaction of the tvshow or season handler.
EpisodeRemoveImportedItem ==
  /\ handler \in {"tvshow", "season"}
  /\ ~inTxn
  /\ \E import \in Imports :
     \E id \in LinkedIds(db, "episode", import) :
       /\ db' = DbDeleteRow(db, "episodes", "episode", id)
       /\ committed' = DbDeleteRow(committed, "episodes", "episode", id)
       /\ RemovalReturns([NoRet EXCEPT !.op = "RemoveChild", !.ok = TRUE,
                                       !.import = import, !.dbId = id])
  /\ UNCHANGED <<openCount, inTxn, calls>>

\* RemoveImportedItems(import) of the movie handler.
MovieRemoveImportedItems ==
  /\ handler = "movieset"
  /\ ChildRemoveImportedItems("movies", "movie")

\* RemoveImportedItems(import) of the episode handler.
EpisodeRemoveImportedItems ==
  /\ handler \in {"tvshow", "season"}
  /\ ChildRemoveImportedItems("episodes", "episode")

----------------------------------------------------------------------------
\* CMovieSetImportHandler

\* GetMoviesByWhere with the option setid, and with the options imported,
\* source and import besides.
GetMoviesInSet(d, setId) == {m \in d.movies : m.setId = setId}
GetImportedMoviesInSet(d, setId, import) ==
  {m \in GetMoviesInSet(d, setId) : m.id \in LinkedIds(d, "movie", import)}

MovieSetGetLocalItems(d, import) ==
  {s \in d.sets : s.id \in LinkedIds(d, "movieset", import)}

\* "(onlyIfEmpty && countImportedMoviesInSet <= 0) || !onlyIfEmpty"
OnlyIfEmptyGuardInverted(onlyIfEmpty, countImportedMoviesInSet) ==
  (onlyIfEmpty /\ countImportedMoviesInSet >= 0) \/ ~onlyIfEmpty
OnlyIfEmptyAllows(onlyIfEmpty, countImportedMoviesInSet) ==
  (onlyIfEmpty /\ countImportedMoviesInSet <= 0) \/ ~onlyIfEmpty

\* "check if the set contains any movies not imported from the (same) import"
SetHasOtherMoviesOrNone(countAllMoviesInSet, countImportedMoviesInSet) ==
  countAllMoviesInSet >= countImportedMoviesInSet
SetHasOtherMovies(countAllMoviesInSet, countImportedMoviesInSet) ==
  countAllMoviesInSet > countImportedMoviesInSet

\* RemoveImportedItem(videodb, import, item, onlyIfEmpty)
MovieSetRemoveImportedItemDb(d, import, setId, onlyIfEmpty, fault) ==
  LET countImportedMoviesInSet ==
        GetTotalItemsInDb(CountOnlyUnder(GetImportedMoviesInSet(d, setId, import),
                                         fault \notin {"importedTotal", "totals"}))
      countAllMoviesInSet ==
        GetTotalItemsInDb(CountOnlyUnder(GetMoviesInSet(d, setId),
                                         fault \notin {"allTotal", "totals"}))
  IN IF fault = "imported" THEN [db |-> d, ok |-> FALSE]
     ELSE IF ~OnlyIfEmptyAllows(onlyIfEmpty, countImportedMoviesInSet)
          THEN [db |-> d, ok |-> TRUE]
     ELSE IF fault = "all" THEN [db |-> d, ok |-> FALSE]
     ELSE IF SetHasOtherMovies(countAllMoviesInSet, countImportedMoviesInSet)
          THEN [db |-> DbRemoveImportFromItem(d, "movieset", setId, import), ok |-> TRUE]
     ELSE [db |-> DbDeleteSet(d, setId), ok |-> TRUE]

\* "for (const auto& item : items) RemoveImportedItem(videodb, import, item.get(), onlyIfEmpty)"
RECURSIVE MovieSetRemoveEach(_, _, _, _, _)
MovieSetRemoveEach(d, import, items, onlyIfEmpty, fault) ==
  IF Len(items) = 0 THEN d
  ELSE MovieSetRemoveEach(
         MovieSetRemoveImportedItemDb(d, import, items[1].id, onlyIfEmpty, fault).db,
         import, Tail(items), onlyIfEmpty, fault)

\* RemoveImportedItems(videodb, import, onlyIfEmpty)
MovieSetRemoveImportedItemsDb(d, import, onlyIfEmpty, fault) ==
  IF fault = "local" THEN [db |-> d, ok |-> FALSE]
  ELSE [db |-> MovieSetRemoveEach(d, import, ById(MovieSetGetLocalItems(d, import)),
                                  onlyIfEmpty, fault),
        ok |-> TRUE]

\* RemoveImportedItem(import, item): RemoveImportedItem(m_db, import, item, false)
\* on m_db as the caller left it; the queries of a closed m_db fail.
MovieSetRemoveImportedItemUnder(faults) ==
  /\ handler = "movieset"
  /\ calls.removals < MaxRemovals
  /\ \E import \in Imports, set \in db.sets, fault \in faults :
       LET res == IF openCount = 0 THEN [db |-> db, ok |-> FALSE]
                  ELSE MovieSetRemoveImportedItemDb(db, import, set.id, FALSE, fault)
       IN /\ db' = res.db
          /\ committed' = Durable(res.db)
          /\ CountedRemovalReturns(
               [NoRet EXCEPT !.op = "Remove", !.ok = res.ok, !.import = import,
                             !.dbId = set.id, !.items = {set.id},
                             !.fault = IF openCount = 0 THEN "closed" ELSE fault])
  /\ UNCHANGED <<openCount, inTxn>>

MovieSetRemoveImportedItem ==
  MovieSetRemoveImportedItemUnder({"none", "imported", "all"})

\* CleanupImportedItems: Open, BeginTransaction,
\* RemoveImportedItems(m_db, import, true), CommitTransaction.
MovieSetCleanupImportedItemsUnder(faults) ==
  /\ handler = "movieset"
  /\ calls.removals < MaxRemovals
  /\ \E import \in Imports, fault \in faults :
       LET r == [NoRet EXCEPT !.op = "Cleanup", !.import = import, !.fault = fault,
                              !.items = LinkedIds(db, "movieset", import)]
           res == MovieSetRemoveImportedItemsDb(db, import, TRUE, fault)
       IN IF fault = "open"
          THEN /\ UNCHANGED <<db, committed, openCount, inTxn>>
               /\ CountedRemovalReturns(r)
          ELSE /\ db' = res.db
               /\ committed' = res.db
               /\ inTxn' = FALSE
               /\ openCount' = openCount + 1
               /\ CountedRemovalReturns([r EXCEPT !.ok = res.ok,
                                                  !.txn = "committed"])

MovieSetCleanupImportedItems == MovieSetCleanupImportedItemsUnder(RemovalFaults)

----------------------------------------------------------------------------
\* CTvShowImportHandler

\* GetEpisodesByWhere with the option tvshowid, and with the options imported,
\* source and import besides.
GetEpisodesOfTvShow(d, showId) == {e \in d.episodes : e.showId = showId}
GetImportedEpisodesOfTvShow(d, showId, import) ==
  {e \in GetEpisodesOfTvShow(d, showId) : e.id \in LinkedIds(d, "episode", import)}

\* The items GetLocalItems yields: m_iEpisode is the number of episodes the
\* tvshow has when it is read.
TvShowLocalItems(d, import) ==
  {[id |-> s.id, path |-> s.path,
    m_iEpisode |-> Cardinality(GetEpisodesOfTvShow(d, s.id))] :
     s \in TvShowGetLocalItems(d, import)}

\* "if there are other episodes only remove the path and the import link"
TvShowHasMoreThanOneEpisode(m_iEpisode) == m_iEpisode > 1
TvShowHasEpisodes(m_iEpisode) == m_iEpisode > 0

\* RemoveImportedItem(videodb, import, item)
TvShowRemoveImportedItemDb(d, import, item) ==
  LET d1 == IF TvShowHasEpisodes(item.m_iEpisode)
            THEN DbRemoveImportFromItem(DbRemovePathFromTvShow(d, item.id, item.path),
                                        "tvshow", item.id, import)
            ELSE DbDeleteRow(d, "shows", "tvshow", item.id)
  IN \* "either way remove the path"
     DbDeletePath(d1, item.path)

RECURSIVE TvShowRemoveEach(_, _, _)
TvShowRemoveEach(d, import, items) ==
  IF Len(items) = 0 THEN d
  ELSE TvShowRemoveEach(TvShowRemoveImportedItemDb(d, import, items[1]),
                        import, Tail(items))

\* RemoveImportedItems(videodb, import)
TvShowRemoveImportedItemsDb(d, import, fault) ==
  IF fault = "local" THEN [db |-> d, ok |-> FALSE]
  ELSE [db |-> TvShowRemoveEach(d, import, ById(TvShowLocalItems(d, import))),
        ok |-> TRUE]

\* The loop of CleanupImportedItems: a tvshow without an episode of the import
\* is removed; a tvshow whose count cannot be read is skipped.
RECURSIVE TvShowCleanupEach(_, _, _, _)
TvShowCleanupEach(d, import, items, fault) ==
  IF Len(items) = 0 THEN d
  ELSE LET importedTvShow == items[1]
           importedEpisodes == GetImportedEpisodesOfTvShow(d, importedTvShow.id, import)
           d1 == IF importedTvShow.id <= 0 \/ fault = "imported" THEN d
                 ELSE IF GetTotalItemsInDb(CountOnly(importedEpisodes)) <= 0
                      THEN TvShowRemoveImportedItemDb(d, import, importedTvShow)
                      ELSE d
       IN TvShowCleanupEach(d1, import, Tail(items), fault)

\* What CleanupImportedItems of the tvshow and the season handler do around
\* their loop, whose result is d: Open, GetLocalItems, BeginTransaction,
\* CommitTransaction.
CleanupLeavesTransaction(fault, d, r) ==
  IF fault = "open"
  THEN /\ UNCHANGED <<db, committed, openCount, inTxn>>
       /\ CountedRemovalReturns(r)
  ELSE IF fault = "local"
  THEN /\ openCount' = openCount + 1
       /\ UNCHANGED <<db, committed, inTxn>>
       /\ CountedRemovalReturns(r)
  ELSE /\ openCount' = openCount + 1
       /\ db' = d
       /\ committed' = committed
       /\ inTxn' = TRUE
       /\ CountedRemovalReturns([r EXCEPT !.ok = TRUE])
CleanupReturns(fault, d, r) ==
  IF fault = "open"
  THEN /\ UNCHANGED <<db, committed, openCount, inTxn>>
       /\ CountedRemovalReturns(r)
  ELSE IF fault = "local"
  THEN /\ openCount' = openCount + 1
       /\ UNCHANGED <<db, committed, inTxn>>
       /\ CountedRemovalReturns(r)
  ELSE /\ openCount' = openCount + 1
       /\ db' = d
       /\ committed' = d
       /\ inTxn' = FALSE
       /\ CountedRemovalReturns([r EXCEPT !.ok = TRUE, !.txn = "committed"])

\* CTvShowImportHandler::CleanupImportedItems
TvShowCleanupImportedItems ==
  /\ handler = "tvshow"
  /\ calls.removals < MaxRemovals
  /\ \E import \in Imports, fault \in RemovalFaults \ {"all"} :
       CleanupReturns(fault,
                      TvShowCleanupEach(db, import, ById(TvShowLocalItems(db, import)), fault),
                      [NoRet EXCEPT !.op = "Cleanup", !.import = import, !.fault = fault,
                                    !.items = LinkedIds(db, "tvshow", import)])

\* RemoveImportedItems(import) of the tvshow handler.
TvShowRemoveImportedItems ==
  /\ handler = "tvshow"
  /\ calls.removals < MaxRemovals
  /\ \E import \in Imports, fault \in {"none", "open", "local"} :
       VideoRemoveImportedItems(fault, TvShowRemoveImportedItemsDb(db, import, fault),
                                [NoRet EXCEPT !.op = "RemoveItems", !.import = import,
                                              !.fault = fault,
                                              !.items = LinkedIds(db, "tvshow", import)])

----------------------------------------------------------------------------
\* CSeasonImportHandler

\* GetEpisodesByWhere with the options tvshowid and season, and with the
\* options imported, source and import besides.
GetEpisodesOfSeason(d, showId, season) ==
  {e \in d.episodes : e.showId = showId /\ e.season = season}
GetImportedEpisodesOfSeason(d, showId, season, import) ==
  {e \in GetEpisodesOfSeason(d, showId, season) : e.id \in LinkedIds(d, "episode", import)}

SeasonGetLocalItems(d, import) ==
  {s \in d.seasons : s.id \in LinkedIds(d, "season", import)}

\* The items GetLocalItems yields: m_iEpisode is the number of episodes the
\* season has when it is read.
SeasonLocalItems(d, import) ==
  {[id |-> s.id, showId |-> s.showId, season |-> s.season,
    m_iEpisode |-> Cardinality(GetEpisodesOfSeason(d, s.showId, s.season))] :
     s \in SeasonGetLocalItems(d, import)}

\* "if there are other episodes only remove the import link to the season"
SeasonHasEpisodes(m_iEpisode) == m_iEpisode > 0

\* RemoveImportedItem(videodb, import, item)
SeasonRemoveImportedItemDb(d, import, item) ==
  IF SeasonHasEpisodes(item.m_iEpisode)
  THEN DbRemoveImportFromItem(d, "season", item.id, import)
  ELSE DbDeleteRow(d, "seasons", "season", item.id)

RECURSIVE SeasonRemoveEach(_, _, _)
SeasonRemoveEach(d, import, items) ==
  IF Len(items) = 0 THEN d
  ELSE SeasonRemoveEach(SeasonRemoveImportedItemDb(d, import, items[1]),
                        import, Tail(items))

\* RemoveImportedItems(videodb, import)
SeasonRemoveImportedItemsDb(d, import, fault) ==
  IF fault = "local" THEN [db |-> d, ok |-> FALSE]
  ELSE [db |-> SeasonRemoveEach(d, import, ById(SeasonLocalItems(d, import))),
        ok |-> TRUE]

\* The loop of CleanupImportedItems: a season without an episode of the import
\* is removed; a season without a tvshow or whose count cannot be read is
\* skipped.
RECURSIVE SeasonCleanupEach(_, _, _, _)
SeasonCleanupEach(d, import, items, fault) ==
  IF Len(items) = 0 THEN d
  ELSE LET importedSeason == items[1]
           importedEpisodes ==
             GetImportedEpisodesOfSeason(d, importedSeason.showId,
                                         importedSeason.season, import)
           d1 == IF importedSeason.showId <= 0 \/ fault = "imported" THEN d
                 ELSE IF GetTotalItemsInDb(CountOnly(importedEpisodes)) <= 0
                      THEN SeasonRemoveImportedItemDb(d, import, importedSeason)
                      ELSE d
       IN SeasonCleanupEach(d1, import, Tail(items), fault)

\* CSeasonImportHandler::CleanupImportedItems
SeasonCleanupImportedItems ==
  /\ handler = "season"
  /\ calls.removals < MaxRemovals
  /\ \E import \in Imports, fault \in RemovalFaults \ {"all"} :
       CleanupReturns(fault,
                      SeasonCleanupEach(db, import, ById(SeasonLocalItems(db, import)), fault),
                      [NoRet EXCEPT !.op = "Cleanup", !.import = import, !.fault = fault,
                                    !.items = LinkedIds(db, "season", import)])

\* CSeasonImportHandler::RemoveImportedItem(import, item): "We don't delete
\* seasons here because part of the season might be local or imported from
\* another source. This will be handled in the cleanup task."
SeasonRemovesImportedItem(d, import, item) ==
  IF ~HasVideoInfoTag(item) THEN [db |-> d, ok |-> FALSE]
  ELSE [db |-> SeasonRemoveImportedItemDb(d, import, item), ok |-> TRUE]
SeasonRemoveImportedItemOf(d, import, item) ==
  IF ~HasVideoInfoTag(item) THEN [db |-> d, ok |-> FALSE]
  ELSE [db |-> d, ok |-> TRUE]

\* RemoveImportedItem(import, item) of the season handler, for a local season
\* of the import, a null pointer or an item without a video tag.
SeasonRemoveImportedItem ==
  /\ handler = "season"
  /\ calls.removals < MaxRemovals
  /\ \E import \in Imports :
     \E item \in {[kind |-> "video"] @@ s : s \in SeasonLocalItems(db, import)}
                 \cup {NullItem, NoTagItem} :
     \E res \in {SeasonRemoveImportedItemOf(db, import, item)} :
       /\ db' = res.db
       /\ committed' = Durable(res.db)
       /\ CountedRemovalReturns(
            [NoRet EXCEPT !.op = "Remove", !.ok = res.ok, !.import = import,
                          !.items = IF HasVideoInfoTag(item) THEN {item.id} ELSE {},
                          !.fault = IF HasVideoInfoTag(item) THEN "none"
                                    ELSE item.kind])
  /\ UNCHANGED <<openCount, inTxn>>

\* RemoveImportedItems(import) of the season handler.
SeasonRemoveImportedItems ==
  /\ handler = "season"
  /\ calls.removals < MaxRemovals
  /\ \E import \in Imports, fault \in {"none", "open", "local"} :
       VideoRemoveImportedItems(fault, SeasonRemoveImportedItemsDb(db, import, fault),
                                [NoRet EXCEPT !.op = "RemoveItems", !.import = import,
                                              !.fault = fault,
                                              !.items = LinkedIds(db, "season", import)])

----------------------------------------------------------------------------
\* The library a removal starts from: a movie set "Trilogy", or a tvshow "Foo"
\* with one season, holding MaxChildren movies or episodes, each imported from
\* one of the imports or local to the library. The parent carries the tag of
\* every import a child of it comes from.
Origins == Imports \cup {"local"}
ChildIds == 3 .. (2 + MaxChildren)

ChildLinks(type, o) ==
  {Link(type, c, o[c]) : c \in {x \in ChildIds : o[x] \in Imports}}
ParentLinks(type, id, o) ==
  {Link(type, id, o[c]) : c \in {x \in ChildIds : o[x] \in Imports}}

TrilogyRow == PlainRow(1, Item("Trilogy", "", 0, 0, <<4>>, 0))
MovieRow(id) == [PlainRow(id, Item("Part", "", 0, 0, <<4, id>>, 0)) EXCEPT !.setId = 1]

MovieSetLibrary(o) ==
  [EmptyDb EXCEPT !.sets = {TrilogyRow},
                  !.movies = {MovieRow(c) : c \in ChildIds},
                  !.links = ChildLinks("movie", o) \cup ParentLinks("movieset", 1, o)]

TvLibrary(o) ==
  [EmptyDb EXCEPT
     !.shows = {FooRow},
     !.seasons = {SeasonRow(2, Item("Season 1", "Foo", 0, 0, <<1, 1>>, 1), 1)},
     !.episodes = {EpisodeRow(c, Item("Episode", "Foo", 0, 0, <<1, 1, c>>, 1), 1) :
                     c \in ChildIds},
     !.links = ChildLinks("episode", o) \cup ParentLinks("tvshow", 1, o)
                 \cup ParentLinks("season", 2, o)]

InitRemove ==
  /\ handler \in {"movieset", "tvshow", "season"}
  /\ manager = "ok"
  /\ openCount = 0
  /\ inTxn = FALSE
  /\ \E o \in [ChildIds -> Origins] :
       db = IF handler = "movieset" THEN MovieSetLibrary(o) ELSE TvLibrary(o)
  /\ committed = db
  /\ nextId = 3 + MaxChildren
  /\ m_tvshows = EmptyMap
  /\ m_sourceIds = {}
  /\ announced = [started |-> 0, startOk |-> 0, finished |-> 0, finishOk |-> 0]
  /\ run = "idle"
  /\ calls = [starts |-> 0, adds |-> 0, removals |-> 0]
  /\ nested = {}
  /\ runShows = {}
  /\ databaseManager = NoDatabaseManager
  /\ ret = NoRet

NextRemove ==
  \/ MovieRemoveImportedItem
  \/ EpisodeRemoveImportedItem
  \/ MovieRemoveImportedItems
  \/ EpisodeRemoveImportedItems
  \/ SeasonRemoveImportedItem
  \/ MovieSetRemoveImportedItem
  \/ MovieSetCleanupImportedItems
  \/ TvShowCleanupImportedItems
  \/ TvShowRemoveImportedItems
  \/ SeasonCleanupImportedItems
  \/ SeasonRemoveImportedItems

SpecRemove == InitRemove /\ [][NextRemove]_vars

\* Removal and cleanup of movie sets whose count-only queries may succeed
\* without reporting a total.
MovieSetRemoveImportedItemUntotalled ==
  MovieSetRemoveImportedItemUnder({"none"} \cup TotalFaults)

MovieSetCleanupImportedItemsUntotalled ==
  MovieSetCleanupImportedItemsUnder({"none"} \cup TotalFaults)

InitTotals == InitRemove /\ handler = "movieset"

NextTotals ==
  \/ VideoStartSynchronisation
  \/ MovieSetRemoveImportedItemUntotalled
  \/ MovieSetCleanupImportedItemsUntotalled

SpecTotals == InitTotals /\ [][NextTotals]_vars

----------------------------------------------------------------------------
\* Changeset detection: Compare, DetermineChangeset, PrepareImportedItem.

\* Most components in which the two items of a comparison differ.
MaxDiffs == 2

\* Artwork is a map from keys to URLs; a key is the sequence of its parts
\* between the dots ("tvshow.fanart" is <<"tvshow", "fanart">>) and a URL the
\* sequence of its scheme and its remainder.

ArtKeys == {<<"thumb">>, <<"set", "fanart">>, <<"tvshow", "fanart">>}
ArtUrls == {<<"http://", "a">>, <<"http://", "b">>, <<"image://", "a">>,
            <<"DefaultVideo.png">>}
ArtUrlsOf(key) == IF key = <<"thumb">> THEN ArtUrls ELSE {<<"http://", "a">>}
ArtMaps ==
  {m \in UNION {[D -> ArtUrls] : D \in SUBSET ArtKeys} :
     \A k \in DOMAIN m : m[k] \in ArtUrlsOf(k)}

SActorInfo(strName, strRole, thumb, thumbUrl) ==
  [strName |-> strName, strRole |-> strRole, thumb |-> thumb, thumbUrl |-> thumbUrl]
Actor == SActorInfo("A", "r", "t", "u")
Casts ==
  { <<>>, <<Actor>>,
    <<SActorInfo("A", "r", "", "")>>, <<SActorInfo("A", "r", "t", "")>>,
    <<SActorInfo("A", "r", "t2", "u")>>, <<SActorInfo("A", "r", "t", "u2")>>,
    <<SActorInfo("A", "r2", "t", "u")>>, <<SActorInfo("B", "r", "t", "u")>>,
    <<Actor, SActorInfo("B", "r", "t", "u")>>,
    <<SActorInfo("B", "r", "t", "u"), Actor>> }
LocalCasts == {<<>>, <<Actor>>}

\* The fields of the video tag that are neither playback state nor cast.
DetailFields == {"FieldTitle", "FieldTvShowTitle"}

VideoItem(type, ids, playCount, lastPlayed, resume, details, art, cast) ==
  [kind |-> "video", m_type |-> type,
   m_iDbId |-> ids.m_iDbId, m_iFileId |-> ids.m_iFileId,
   m_iIdShow |-> ids.m_iIdShow, m_iIdSeason |-> ids.m_iIdSeason,
   source |-> ids.source, m_basePath |-> ids.m_basePath,
   m_parentPathID |-> ids.m_parentPathID,
   playCount |-> playCount, m_lastPlayed |-> lastPlayed, resume |-> resume,
   details |-> details, art |-> art, m_cast |-> cast]

\* The identity of an item as the source delivers it and as the library
\* holds it.
IncomingIds ==
  [m_iDbId |-> -1, m_iFileId |-> -1, m_iIdShow |-> -1, m_iIdSeason |-> -1,
   source |-> "", m_basePath |-> <<>>, m_parentPathID |-> -1]
LocalIds ==
  [m_iDbId |-> 7, m_iFileId |-> 8, m_iIdShow |-> 9, m_iIdSeason |-> 10,
   source |-> "A", m_basePath |-> <<1>>, m_parentPathID |-> 11]

\* The local items of a type, and the items a source can deliver for it.
LocalVideoItems(type) ==
  {VideoItem(type, LocalIds, 0, 0, 0, [f \in DetailFields |-> 0], art, cast) :
     art \in ArtMaps, cast \in LocalCasts}
IncomingVideoItems(type) ==
  {VideoItem(type, IncomingIds, pc, lp, rs, d, art, cast) :
     pc \in {0, 1}, lp \in {0, 1}, rs \in {0, 1}, d \in [DetailFields -> {0, 1}],
     art \in ArtMaps, cast \in Casts}

\* The value of an artwork key in a map, <<>> without it.
ArtOf(art, key) == IF key \in DOMAIN art THEN art[key] ELSE <<>>

\* The number of components in which two items with a video tag differ.
DiffCount(a, b) ==
  Cardinality({f \in DetailFields : a.details[f] # b.details[f]})
  + Cardinality({k \in ArtKeys : ArtOf(a.art, k) # ArtOf(b.art, k)})
  + (IF a.playCount # b.playCount THEN 1 ELSE 0)
  + (IF a.m_lastPlayed # b.m_lastPlayed THEN 1 ELSE 0)
  + (IF a.resume # b.resume THEN 1 ELSE 0)
  + (IF a.m_cast # b.m_cast THEN 1 ELSE 0)

\* CMovieImportHandler::IgnoreDifferences
MovieIgnoreDifferences ==
  {"FieldAlbum", "FieldArtist", "FieldEpisodeNumber",
   "FieldEpisodeNumberSpecialSort", "FieldProductionCode", "FieldSeason",
   "FieldSeasonSpecialSort", "FieldTrackNumber", "FieldTvShowStatus",
   "FieldTvShowTitle"}

\* CMovieSetImportHandler::IgnoreDifferences
MovieSetIgnoreDifferences ==
  {"FieldActor", "FieldAirDate", "FieldAlbum", "FieldArtist", "FieldCountry",
   "FieldDirector", "FieldEpisodeNumber", "FieldEpisodeNumberSpecialSort",
   "FieldFilename", "FieldGenre", "FieldInProgress", "FieldLastPlayed",
   "FieldMPAA", "FieldOriginalTitle", "FieldPath", "FieldPlaycount",
   "FieldPlotOutline", "FieldProductionCode", "FieldRating", "FieldSeason",
   "FieldSeasonSpecialSort", "FieldSet", "FieldSortTitle", "FieldStudio",
   "FieldTag", "FieldTagline", "FieldTime", "FieldTop250",
   "FieldTrackNumber", "FieldTrailer", "FieldTvShowStatus",
   "FieldTvShowTitle", "FieldUniqueId", "FieldUserRating", "FieldWriter"}

\* CMusicVideoImportHandler::IgnoreDifferences
MusicVideoIgnoreDifferences ==
  {"FieldActor", "FieldCountry", "FieldEpisodeNumber",
   "FieldEpisodeNumberSpecialSort", "FieldMPAA", "FieldOriginalTitle",
   "FieldPlotOutline", "FieldProductionCode", "FieldSeason",
   "FieldSeasonSpecialSort", "FieldSet", "FieldSortTitle", "FieldTagline",
   "FieldTop250", "FieldTrackNumber", "FieldTrailer", "FieldTvShowStatus",
   "FieldTvShowTitle", "FieldWriter"}

\* CSeasonImportHandler::IgnoreDifferences
SeasonIgnoreDifferences ==
  {"FieldActor", "FieldAirDate", "FieldAlbum", "FieldArtist", "FieldCountry",
   "FieldDirector", "FieldEpisodeNumber", "FieldEpisodeNumberSpecialSort",
   "FieldFilename", "FieldGenre", "FieldInProgress", "FieldLastPlayed",
   "FieldMPAA", "FieldOriginalTitle", "FieldPath", "FieldPlaycount",
   "FieldPlot", "FieldPlotOutline", "FieldProductionCode", "FieldRating",
   "FieldSeasonSpecialSort", "FieldSet", "FieldSortTitle", "FieldStudio",
   "FieldTag", "FieldTagline", "FieldTime", "FieldTitle", "FieldTop250",
   "FieldTrackNumber", "FieldTrailer", "FieldTvShowStatus", "FieldUniqueId",
   "FieldUserRating", "FieldWriter"}

\* CTvShowImportHandler::IgnoreDifferences
TvShowIgnoreDifferences ==
  {"FieldAlbum", "FieldArtist", "FieldCountry", "FieldDirector",
   "FieldEpisodeNumber", "FieldEpisodeNumberSpecialSort", "FieldFilename",
   "FieldInProgress", "FieldLastPlayed", "FieldPlaycount",
   "FieldPlotOutline", "FieldProductionCode", "FieldSeason",
   "FieldSeasonSpecialSort", "FieldSet", "FieldTagline", "FieldTime",
   "FieldTop250", "FieldTrackNumber", "FieldTvShowTitle", "FieldWriter"}

\* CEpisodeImportHandler::IgnoreDifferences
EpisodeIgnoreDifferences ==
  {"FieldActor", "FieldAlbum", "FieldArtist", "FieldCountry", "FieldGenre",
   "FieldMPAA", "FieldPlotOutline", "FieldSet", "FieldSortTitle",
   "FieldStudio", "FieldTag", "FieldTagline", "FieldTop250",
   "FieldTrackNumber", "FieldTrailer", "FieldTvShowStatus",
   "FieldTvShowTitle"}

\* IgnoreDifferences() of the handler of a media type.
IgnoreDifferences(type) ==
  CASE type = "movie" -> MovieIgnoreDifferences
    [] type = "movieset" -> MovieSetIgnoreDifferences
    [] type = "musicvideo" -> MusicVideoIgnoreDifferences
    [] type = "season" -> SeasonIgnoreDifferences
    [] type = "tvshow" -> TvShowIgnoreDifferences
    [] type = "episode" -> EpisodeIgnoreDifferences

\* CVideoInfoTag::GetDifferences: the fields in which two tags differ.
GetDifferences(a, b) ==
  {f \in DetailFields : a.details[f] # b.details[f]}
  \cup (IF a.playCount # b.playCount THEN {"FieldPlaycount"} ELSE {})
  \cup (IF a.m_lastPlayed # b.m_lastPlayed THEN {"FieldLastPlayed"} ELSE {})
  \cup (IF a.resume # b.resume THEN {"FieldInProgress"} ELSE {})
  \cup (IF a.m_cast # b.m_cast THEN {"FieldActor"} ELSE {})

\* CVideoInfoTag::Equals
TagEquals(a, b) == GetDifferences(a, b) = {}

\* StringUtils::StartsWith on the parts of a key or URL.
StartsWith(parts, prefix) == Len(parts) > 0 /\ parts[1] = prefix

\* The check of one artwork of RemoveAutoArtwork.
\* A key starts with parentPrefix + "." when it has a part after the prefix.
IsAutoArtwork(key, url, parentPrefixes) ==
  \/ url = <<"DefaultVideo.png">> \/ url = <<"DefaultFolder.png">>
  \/ StartsWith(url, "image://")
  \/ /\ parentPrefixes # {}
     /\ \E parentPrefix \in parentPrefixes :
          Len(key) > 1 /\ StartsWith(key, parentPrefix)

\* CVideoImportHandler::RemoveAutoArtwork
RemoveAutoArtwork(artwork, parentPrefixes) ==
  [k \in {x \in DOMAIN artwork : ~IsAutoArtwork(x, artwork[x], parentPrefixes)}
     |-> artwork[k]]

\* "remove any artwork Kodi automatically adds"
ParentPrefixes(type) ==
  IF type = "movie" THEN {"set"}
  ELSE IF type \in {"season", "episode"} THEN {"tvshow", "season"}
  ELSE {}

\* The comparison of the artwork in Compare: FALSE when Compare returns false
\* for it.
SameArtworkSize(originalArt, newArt) ==
  Cardinality(DOMAIN originalArt) # Cardinality(DOMAIN newArt)
SameArtworkCount(originalArt, newArt) ==
  Cardinality(DOMAIN originalArt) = Cardinality(DOMAIN newArt)

ArtworkEqual(originalItem, newItem) ==
  IF originalItem.art = newItem.art THEN TRUE
  ELSE IF SameArtworkCount(originalItem.art, newItem.art) THEN FALSE
  ELSE RemoveAutoArtwork(originalItem.art, ParentPrefixes(originalItem.m_type))
         = newItem.art

\* The comparison of Compare without all metadata.
PlaybackEqualNoResume(a, b) ==
  a.playCount = b.playCount /\ a.m_lastPlayed = b.m_lastPlayed
PlaybackEqual(a, b) ==
  /\ a.playCount = b.playCount
  /\ a.m_lastPlayed = b.m_lastPlayed
  /\ a.resume = b.resume

\* "if playback metadata shouldn't be compared simply remove them from the
\* list of differences"
KeepPlaybackDifferences(differences, playbackMetadata) == differences
DropPlaybackDifferences(differences, playbackMetadata) ==
  IF playbackMetadata THEN differences
  ELSE differences \ {"FieldPlaycount", "FieldLastPlayed", "FieldInProgress"}

\* "check and remove any media type specific ignored properties"
KeepIgnoredDifferences(differences, type) == differences
DropIgnoredDifferences(differences, type) == differences \ IgnoreDifferences(type)

\* "special handling for actors without artwork": whether the two casts count
\* as equal.
ActorDiffers(originalActor, newActor) ==
  \/ originalActor.strName # newActor.strName
  \/ originalActor.strRole # newActor.strRole
  \/ newActor.thumb # "" /\ originalActor.thumb # newActor.thumb
  \/ newActor.thumbUrl # "" /\ originalActor.thumbUrl # newActor.thumbUrl

CastEqualIgnoringThumbs(originalCast, newCast) ==
  IF Len(newCast) = 0 THEN TRUE
  ELSE /\ Len(originalCast) = Len(newCast)
       /\ \A index \in 1..Len(originalCast) :
            originalCast[index].strName = newCast[index].strName
CastEqual(originalCast, newCast) ==
  IF Len(newCast) = 0 THEN TRUE
  ELSE /\ Len(originalCast) = Len(newCast)
       /\ \A index \in 1..Len(originalCast) :
            ~ActorDiffers(originalCast[index], newCast[index])

\* CVideoImportHandler::Compare of the handler of a media type.
Compare(type, originalItem, newItem, allMetadata, playbackMetadata) ==
  IF ~HasVideoInfoTag(originalItem) \/ ~HasVideoInfoTag(newItem) THEN FALSE
  ELSE IF ~allMetadata THEN PlaybackEqual(originalItem, newItem)
  ELSE IF ~ArtworkEqual(originalItem, newItem) THEN FALSE
  ELSE IF TagEquals(originalItem, newItem) THEN TRUE
  ELSE LET d1 == DropPlaybackDifferences(GetDifferences(originalItem, newItem),
                                         playbackMetadata)
           d2 == DropIgnoredDifferences(d1, type)
           d3 == IF "FieldActor" \in d2
                      /\ CastEqual(originalItem.m_cast, newItem.m_cast)
                 THEN d2 \ {"FieldActor"} ELSE d2
       IN d3 = {}

\* m_thumbLoader.LoadItem: loading the details of the local item succeeds or
\* fails, and a successful load may add the artwork Kodi generates.
LoadItem(localItem, loaded) ==
  IF loaded /\ <<"thumb">> \notin DOMAIN localItem.art
  THEN [localItem EXCEPT !.art = [k \in DOMAIN @ \cup {<<"thumb">>} |->
                                    IF k = <<"thumb">> THEN <<"image://", "a">>
                                    ELSE @[k]]]
  ELSE localItem

\* The mapping of the comparison to the changeset type.
ChangesetAlwaysChanged(equal) == "Changed"
ChangesetOf(equal) == IF equal THEN "None" ELSE "Changed"

\* CVideoImportHandler::DetermineChangeset: the changeset type and the local
\* item as the call leaves it.
DetermineChangesetOf(type, item, localItem, loaded, settings) ==
  IF ~HasVideoInfoTag(item) \/ ~HasVideoInfoTag(localItem)
  THEN [type |-> "None", localItem |-> localItem]
  ELSE [type |-> ChangesetOf(Compare(type, LoadItem(localItem, loaded), item,
                                     settings.UpdateImportedMediaItems,
                                     settings.UpdatePlaybackMetadataFromSource)),
        localItem |-> LoadItem(localItem, loaded)]

\* The fields PrepareImportedItem copies from the local item.
CopiedWithoutSeason(item, localItem) ==
  [item EXCEPT !.m_iDbId = localItem.m_iDbId,
               !.m_iFileId = localItem.m_iFileId,
               !.m_iIdShow = localItem.m_iIdShow,
               !.source = localItem.source,
               !.m_basePath = localItem.m_basePath,
               !.m_parentPathID = localItem.m_parentPathID]
CopyIdentity(item, localItem) ==
  [item EXCEPT !.m_iDbId = localItem.m_iDbId,
               !.m_iFileId = localItem.m_iFileId,
               !.m_iIdShow = localItem.m_iIdShow,
               !.m_iIdSeason = localItem.m_iIdSeason,
               !.source = localItem.source,
               !.m_basePath = localItem.m_basePath,
               !.m_parentPathID = localItem.m_parentPathID]

\* CVideoImportHandler::PrepareImportedItem: the incoming item as the call
\* leaves it.
PrepareImportedItemOf(item, localItem) ==
  IF ~HasVideoInfoTag(item) \/ ~HasVideoInfoTag(localItem) THEN item
  ELSE CopyIdentity(item, localItem)

\* The pairs of a local and an incoming item the calls are made with: two
\* items with a video tag that differ in at most MaxDiffs components, or a
\* pair with a null pointer or an item without a video tag.
PairsWithinMaxDiffs ==
  {p \in LocalVideoItems("") \X IncomingVideoItems("") :
     DiffCount(p[1], p[2]) <= MaxDiffs}
TaggedPairs(type) ==
  {<<[p[1] EXCEPT !.m_type = type], [p[2] EXCEPT !.m_type = type]>> :
     p \in PairsWithinMaxDiffs}
UntaggedPairs(type) ==
  LET some == VideoItem(type, LocalIds, 0, 0, 0, [f \in DetailFields |-> 0],
                        <<>>, <<>>)
      inc == VideoItem(type, IncomingIds, 0, 0, 0, [f \in DetailFields |-> 0],
                       <<>>, <<>>)
  IN ({NullItem, NoTagItem, some} \X {NullItem, NoTagItem, inc}) \ {<<some, inc>>}

\* The pairs DetermineChangeset and PrepareImportedItem are called with: those
\* whose local item has no artwork or a thumb of its own only.
MatchedPairs(type) ==
  {p \in TaggedPairs(type) :
     p[1].art = <<>> \/ p[1].art = [k \in {<<"thumb">>} |-> <<"http://", "a">>]}

Settings ==
  [UpdateImportedMediaItems : BOOLEAN, UpdatePlaybackMetadataFromSource : BOOLEAN]

\* One call is looked at per behaviour.
NoCallYet == ret = NoRet

\* What a call of the changeset detection leaves: its inputs and its result.
ChangesetReturns(r) ==
  /\ ret' = r
  /\ UNCHANGED <<databaseManager, handler, manager, openCount, inTxn, db, committed, nextId,
                 m_tvshows, m_sourceIds, announced, run, calls, nested, runShows>>

\* Compare(originalItem, newItem, allMetadata, playbackMetadata)
CompareItems ==
  /\ NoCallYet
  /\ \E p \in TaggedPairs(handler) \cup UntaggedPairs(handler),
     allMetadata \in BOOLEAN, playbackMetadata \in BOOLEAN :
    ChangesetReturns([op |-> "Compare", originalItem |-> p[1], newItem |-> p[2],
                      allMetadata |-> allMetadata,
                      playbackMetadata |-> playbackMetadata,
                      equal |-> Compare(handler, p[1], p[2], allMetadata,
                                        playbackMetadata)])

\* DetermineChangeset(import, item, localItem)
DetermineChangeset ==
  /\ NoCallYet
  /\ \E p \in MatchedPairs(handler) \cup UntaggedPairs(handler),
     loaded \in BOOLEAN, settings \in Settings :
    \E res \in {DetermineChangesetOf(handler, p[2], p[1], loaded, settings)} :
      ChangesetReturns([op |-> "DetermineChangeset", item |-> p[2],
                        localItem |-> p[1], loaded |-> loaded,
                        settings |-> settings, localAfter |-> res.localItem,
                        changeset |-> res.type])

\* PrepareImportedItem(import, item, localItem)
PrepareImportedItem ==
  /\ NoCallYet
  /\ \E p \in MatchedPairs(handler) \cup UntaggedPairs(handler) :
    ChangesetReturns([op |-> "PrepareImportedItem", item |-> p[2],
                      localItem |-> p[1],
                      itemAfter |-> PrepareImportedItemOf(p[2], p[1]),
                      localAfter |-> p[1]])

InitChangeset ==
  /\ handler \in HandlerTypes
  /\ manager = "ok"
  /\ openCount = 0
  /\ inTxn = FALSE
  /\ db = EmptyDb
  /\ committed = db
  /\ nextId = 2
  /\ m_tvshows = EmptyMap
  /\ m_sourceIds = {}
  /\ announced = [started |-> 0, startOk |-> 0, finished |-> 0, finishOk |-> 0]
  /\ run = "idle"
  /\ calls = [starts |-> 0, adds |-> 0, removals |-> 0]
  /\ nested = {}
  /\ runShows = {}
  /\ databaseManager = NoDatabaseManager
  /\ ret = NoRet

NextChangeset ==
  \/ CompareItems
  \/ DetermineChangeset
  \/ PrepareImportedItem

SpecChangeset == InitChangeset /\ [][NextChangeset]_vars

----------------------------------------------------------------------------
\* UpdateImportedItem of the six handlers, called in a run on the open m_db.

\* The library an update works on: the tvshow "Foo" with its season and
\* episodes, the movie set "Trilogy" with its movies, and two music videos,
\* all imported from this import.
UpdateLibrary ==
  LET o == [c \in ChildIds |-> ThisImport]
  IN [TvLibrary(o) EXCEPT
        !.sets = {TrilogyRow},
        !.movies = {MovieRow(c) : c \in ChildIds},
        !.musicvideos = {PlainRow(1, Item("One", "", 0, 0, <<4>>, 0)),
                         PlainRow(2, Item("Two", "", 0, 0, <<5>>, 0))},
        !.links = @ \cup ChildLinks("movie", o) \cup ParentLinks("movieset", 1, o)
                    \cup {Link("musicvideo", 1, ThisImport),
                          Link("musicvideo", 2, ThisImport)}]

\* The table of the library that holds the rows of a media type.
TableOf(type) ==
  CASE type = "movie" -> "movies"
    [] type = "movieset" -> "sets"
    [] type = "musicvideo" -> "musicvideos"
    [] type = "tvshow" -> "shows"
    [] type = "season" -> "seasons"
    [] type = "episode" -> "episodes"

Tables == {TableOf(type) : type \in HandlerTypes}

\* The items an update is called with: an item of the source with the m_iDbId
\* and m_iIdShow PrepareImportedItem gave it, a null pointer, or an item without
\* a video tag. The m_iDbId is that of a row of the library, 0 or -1.
SourceItems(type) ==
  CASE type = "episode" -> EpisodeItems
    [] type = "season" -> SeasonItems
    [] type = "tvshow" -> TvShowItems
    [] OTHER -> PlainItems

UpdateDbIds(type) == {r.id : r \in UpdateLibrary[TableOf(type)]} \cup {0, NoId}

UpdateItems(type) ==
  {[kind |-> "video", m_iDbId |-> id, m_iIdShow |-> 1] @@ it :
     it \in SourceItems(type), id \in UpdateDbIds(type)}
  \cup {NullItem, NoTagItem}

\* "item == nullptr || !item->HasVideoInfoTag() || m_iDbId <= 0" does not hold.
HasNonNegativeDbId(item) == HasVideoInfoTag(item) /\ item.m_iDbId >= 0
HasValidDbId(item) == HasVideoInfoTag(item) /\ item.m_iDbId > 0

\* The row SetDetailsFor<Type> with an id writes: the details of the item
\* under that id. A tvshow keeps its paths and gains the item's, a movie keeps
\* its set.
UpdatedRow(type, old, item) ==
  CASE type = "tvshow" ->
         [ShowRow(item.m_iDbId, item) EXCEPT
            !.paths = @ \cup UNION {r.paths : r \in old}]
    [] type = "season" -> SeasonRow(item.m_iDbId, item, item.m_iIdShow)
    [] type = "episode" -> EpisodeRow(item.m_iDbId, item, item.m_iIdShow)
    [] OTHER ->
         [PlainRow(item.m_iDbId, item) EXCEPT
            !.setId = IF old = {} THEN 0 ELSE (CHOOSE r \in old : TRUE).setId]

\* SetDetailsForMovie / MovieSet / MusicVideo / TvShow / Season / Episode with
\* the id of the item.
DbSetDetails(d, type, item) ==
  LET old == {r \in d[TableOf(type)] : r.id = item.m_iDbId}
  IN [d EXCEPT ![TableOf(type)] = (@ \ old) \cup {UpdatedRow(type, old, item)}]

\* The handlers whose UpdateImportedItem calls SetDetailsForFile when the
\* import updates the playback metadata from the source.
UpdatesFileDetails(type) == type \in {"movie", "episode", "musicvideo"}

\* UpdateImportedItem(import, item) of the handler of a media type. The call
\* leaves its arguments, what it returned and the storage calls it made.
UpdateImportedItem(type) ==
  /\ NoCallYet
  /\ handler = type
  /\ \E item \in UpdateItems(type), failed \in BOOLEAN,
        UpdatePlaybackMetadataFromSource \in BOOLEAN :
       LET r == [op |-> "Update", item |-> item, failed |-> failed,
                 UpdatePlaybackMetadataFromSource |-> UpdatePlaybackMetadataFromSource]
       IN IF ~HasValidDbId(item)
          THEN /\ db' = db
               /\ ret' = r @@ [ok |-> FALSE, writes |-> {}]
          ELSE IF failed
          THEN /\ db' = db
               /\ ret' = r @@ [ok |-> FALSE, writes |-> {"SetDetails"}]
          ELSE /\ db' = DbSetDetails(db, type, item)
               /\ ret' = r @@ [ok |-> TRUE,
                               writes |-> IF UpdatesFileDetails(type)
                                             /\ UpdatePlaybackMetadataFromSource
                                          THEN {"SetDetails", "SetDetailsForFile"}
                                          ELSE {"SetDetails"}]
  /\ committed' = Durable(db')
  /\ UNCHANGED <<databaseManager, handler, manager, openCount, inTxn, nextId, m_tvshows,
                 m_sourceIds, announced, run, calls, nested, runShows>>

MovieUpdateImportedItem == UpdateImportedItem("movie")
MovieSetUpdateImportedItem == UpdateImportedItem("movieset")
MusicVideoUpdateImportedItem == UpdateImportedItem("musicvideo")
TvShowUpdateImportedItem == UpdateImportedItem("tvshow")
SeasonUpdateImportedItem == UpdateImportedItem("season")
EpisodeUpdateImportedItem == UpdateImportedItem("episode")

\* An update is made in a run: m_db is open and its transaction is active.
InitUpdate ==
  /\ handler \in HandlerTypes
  /\ manager = "ok"
  /\ openCount = 1
  /\ inTxn = TRUE
  /\ db = UpdateLibrary
  /\ committed = db
  /\ nextId = 3 + MaxChildren
  /\ m_tvshows = EmptyMap
  /\ m_sourceIds = {}
  /\ announced = [started |-> 1, startOk |-> 1, finished |-> 0, finishOk |-> 0]
  /\ run = "running"
  /\ calls = [starts |-> 1, adds |-> 0, removals |-> 0]
  /\ nested = {}
  /\ runShows = {}
  /\ databaseManager = NoDatabaseManager
  /\ ret = NoRet

NextUpdate ==
  \/ MovieUpdateImportedItem
  \/ MovieSetUpdateImportedItem
  \/ MusicVideoUpdateImportedItem
  \/ TvShowUpdateImportedItem
  \/ SeasonUpdateImportedItem
  \/ EpisodeUpdateImportedItem

SpecUpdate == InitUpdate /\ [][NextUpdate]_vars

----------------------------------------------------------------------------
\* FindMatchingLocalItem of the handlers and FindTvShowId of the Episode and
\* the Season handler, as functions of their arguments.

\* Longest list of local items FindMatchingLocalItem is called with.
MaxLocalItems == 2

\* An item with a video tag.
WithVideoInfoTag(it) == [kind |-> "video"] @@ it

\* The local items of the library and the items the source delivers.
FindLocalItems ==
  { WithVideoInfoTag(Item("Foo", "Foo", 0, 0, <<1>>, 1)),
    WithVideoInfoTag(Item("Foo", "Foo", 1, 0, <<2>>, 1)),
    WithVideoInfoTag(Item("Foo", "Foo", 0, 0, <<1>>, 2)),
    WithVideoInfoTag(Item("Bar", "Bar", 2, 0, <<3>>, 1)) }
FindIncomingItems ==
  FindLocalItems
  \cup { WithVideoInfoTag(Item("Foo", "Foo", 2, 0, <<2>>, 1)),
         WithVideoInfoTag(Item("Baz", "Baz", 0, 0, <<9>>, 1)),
         NullItem, NoTagItem }

\* The lists of local items of at most MaxLocalItems items; the handlers that
\* look at the path may also meet a local item without a video tag.
LocalItemLists(type) ==
  LET pool == IF type \in {"movie", "episode", "musicvideo"}
              THEN FindLocalItems \cup {NoTagItem} ELSE FindLocalItems
  IN UNION {[1..n -> pool] : n \in 0..MaxLocalItems}

\* IsSameTVShow (TvShowImportHandler.cpp)
IsSameTVShow(left, right) == left.title = right.title /\ left.year = right.year

\* IsSameSeason (SeasonImportHandler.cpp)
IsSameSeasonAnyYear(left, right) ==
  left.showTitle = right.showTitle /\ left.season = right.season
IsSameSeason(left, right) ==
  /\ left.showTitle = right.showTitle
  /\ ~HasYear(left.year) \/ ~HasYear(right.year) \/ left.year = right.year
  /\ left.season = right.season

\* The predicate of the std::find_if of a handler's FindMatchingLocalItem.
IsMatchingLocalItem(type, item, localItem) ==
  CASE type = "tvshow" -> IsSameTVShow(item, localItem)
    [] type = "season" -> IsSameSeason(item, localItem)
    [] type = "movieset" -> item.title = localItem.title
    [] OTHER -> HasVideoInfoTag(localItem) /\ localItem.path = item.path

\* FindMatchingLocalItem(import, item, localItems): the index of the local
\* item returned, 0 for nullptr.
FindMatchingLocalItemOf(type, item, localItems) ==
  IF ~HasVideoInfoTag(item) THEN 0
  ELSE LET hits == {i \in 1..Len(localItems) :
                      IsMatchingLocalItem(type, item, localItems[i])}
       IN IF hits = {} THEN 0 ELSE CHOOSE i \in hits : \A j \in hits : i <= j

\* What a call of this section leaves: its arguments and its result.
FindReturns(r) ==
  /\ ret' = r
  /\ UNCHANGED <<databaseManager, handler, manager, openCount, inTxn, db, committed, nextId,
                 m_tvshows, m_sourceIds, announced, run, calls, nested, runShows>>

FindMatchingLocalItem(type) ==
  /\ NoCallYet
  /\ handler = type
  /\ \E item \in FindIncomingItems, localItems \in LocalItemLists(type) :
       FindReturns([op |-> "FindMatchingLocalItem", item |-> item,
                    localItems |-> localItems,
                    index |-> FindMatchingLocalItemOf(type, item, localItems)])

\* CVideoImportHandler::FindMatchingLocalItem, which the Movie, Episode and
\* MusicVideo handlers inherit.
VideoFindMatchingLocalItem ==
  \E type \in {"movie", "episode", "musicvideo"} : FindMatchingLocalItem(type)
TvShowFindMatchingLocalItem == FindMatchingLocalItem("tvshow")
SeasonFindMatchingLocalItem == FindMatchingLocalItem("season")
MovieSetFindMatchingLocalItem == FindMatchingLocalItem("movieset")

\* The tvshows of one title the map of a run can hold, and the maps.
FindCandidates ==
  { ShowItem(1, "Foo", 0, <<1>>), ShowItem(2, "Foo", 1, <<2>>),
    ShowItem(3, "Foo", 2, <<1, 1>>) }
FindMaps ==
  {[EmptyMap EXCEPT !["Foo"] = c] :
     c \in {s \in UNION {[1..n -> FindCandidates] : n \in 0..3} :
              \A i \in 1..Len(s), j \in 1..Len(s) : s[i] = s[j] => i = j}}

\* The children FindTvShowId is called with.
FindChildren ==
  {WithVideoInfoTag(Item("Child", t, y, 0, p, 1)) :
     t \in {"Foo", "Bar", ""}, y \in {0, 1, 2}, p \in {<<1, 1, 1>>, <<2, 1>>, <<4, 1>>}}
  \cup {NullItem, NoTagItem}

\* FindTvShowId with several candidates choosing any of them.
FindTvShowIdOfAnyCandidate(map, item) ==
  IF ~HasVideoInfoTag(item) THEN {NoId}
  ELSE IF item.showTitle = "" \/ Len(map[item.showTitle]) = 0 THEN {NoId}
  ELSE {map[item.showTitle][i].dbId : i \in 1..Len(map[item.showTitle])}
\* FindTvShowId(item): "if (item == nullptr || !item->HasVideoInfoTag()) return -1"
\* before the lookup in m_tvshows.
FindTvShowIdOf(map, item) ==
  IF ~HasVideoInfoTag(item) THEN {NoId} ELSE FindTvShowId(map, item)

FindTvShowIdCall(type) ==
  /\ NoCallYet
  /\ handler = type
  /\ \E item \in FindChildren :
     \E found \in FindTvShowIdOf(m_tvshows, item) :
       FindReturns([op |-> "FindTvShowId", item |-> item, found |-> found])

EpisodeFindTvShowId == FindTvShowIdCall("episode")
SeasonFindTvShowId == FindTvShowIdCall("season")

InitFind ==
  /\ handler \in HandlerTypes
  /\ manager = "ok"
  /\ openCount = 1
  /\ inTxn = TRUE
  /\ db = EmptyDb
  /\ committed = db
  /\ nextId = 4
  /\ m_tvshows \in FindMaps
  /\ handler \notin {"episode", "season"} => m_tvshows = EmptyMap
  /\ m_sourceIds = {}
  /\ announced = [started |-> 1, startOk |-> 1, finished |-> 0, finishOk |-> 0]
  /\ run = "running"
  /\ calls = [starts |-> 1, adds |-> 0, removals |-> 0]
  /\ nested = {}
  /\ runShows = {}
  /\ databaseManager = NoDatabaseManager
  /\ ret = NoRet

NextFind ==
  \/ VideoFindMatchingLocalItem
  \/ TvShowFindMatchingLocalItem
  \/ SeasonFindMatchingLocalItem
  \/ MovieSetFindMatchingLocalItem
  \/ EpisodeFindTvShowId
  \/ SeasonFindTvShowId

SpecFind == InitFind /\ [][NextFind]_vars

----------------------------------------------------------------------------
\* CDatabaseManager: Initialize, UpdateDatabase, Deinitialize. CanOpen is
\* called from other threads under the lock of the map, that is between any
\* two steps below.

\* What a step of the manager leaves of the handlers' state; d is the video
\* library after the step, which the manager writes outside of the handlers'
\* transactions.
DatabaseManagerReturns(d, c) ==
  /\ db' = d
  /\ committed' = c
  /\ UNCHANGED <<handler, manager, openCount, inTxn, nextId, m_tvshows,
                 m_sourceIds, announced, run, calls, nested, runShows, ret>>

\* Initialize(addonsOnly) up to its first UpdateDatabase: Deinitialize.
Initialize ==
  /\ databaseManager.position = 0
  /\ databaseManager.calls < MaxInitializes
  /\ \E addonsOnly \in BOOLEAN, opened \in BOOLEAN :
       /\ addonsOnly => ~opened
       /\ databaseManager' = [DeinitializeOf(databaseManager) EXCEPT
                                !.position = 1,
                                !.updating = FALSE,
                                !.addonsOnly = addonsOnly,
                                !.opened = opened,
                                !.calls = @ + 1]
       /\ DatabaseManagerReturns(DisableImportItems(db, opened),
                                 DisableImportItems(committed, opened))

\* UpdateDatabase up to the Update of the database: the status of its name
\* is DB_UPDATING.
UpdateDatabaseStarts ==
  /\ databaseManager.position > 0
  /\ ~databaseManager.updating
  /\ LET name == Databases[databaseManager.position]
     IN databaseManager' =
          [databaseManager EXCEPT
             !.m_dbStatus = UpdateStatus(@, name, DB_UPDATING),
             !.updating = TRUE,
             !.recorded[name] = DB_UPDATING,
             !.deinitialized = @ \ {name}]
  /\ DatabaseManagerReturns(db, committed)

\* The rest of UpdateDatabase: the Update has succeeded or failed and the
\* status says so. After the video database the imported items are disabled
\* ("db.SetImportItemsEnabled(false)"). Initialize goes on to the next
\* database, or returns after the last one and, with addonsOnly, after the
\* first.
UpdateDatabaseEnds ==
  /\ databaseManager.position > 0
  /\ databaseManager.updating
  /\ \E updated \in BOOLEAN :
       LET name == Databases[databaseManager.position]
           status == IF updated THEN DB_READY ELSE DB_FAILED
           last == \/ databaseManager.addonsOnly
                   \/ databaseManager.position = Len(Databases)
       IN /\ databaseManager' =
               [databaseManager EXCEPT
                  !.m_dbStatus = UpdateStatus(@, name, status),
                  !.updating = FALSE,
                  !.recorded[name] = status,
                  !.position = IF last THEN 0 ELSE @ + 1]
          /\ DatabaseManagerReturns(DisableImportItems(db, name = "video"),
                                    DisableImportItems(committed, name = "video"))

\* Deinitialize(addonsOnly), called on its own.
Deinitialize ==
  /\ databaseManager.position = 0
  /\ databaseManager.calls < MaxInitializes
  /\ \E addonsOnly \in BOOLEAN, opened \in BOOLEAN :
       /\ addonsOnly => ~opened
       /\ databaseManager' = [DeinitializeOf(databaseManager) EXCEPT
                                !.addonsOnly = addonsOnly,
                                !.opened = opened,
                                !.calls = @ + 1]
       /\ DatabaseManagerReturns(DisableImportItems(db, opened),
                                 DisableImportItems(committed, opened))

InitDatabase ==
  /\ handler = "movie"
  /\ manager = "ok"
  /\ openCount = 0
  /\ inTxn = FALSE
  /\ db = EmptyDb
  /\ committed = db
  /\ nextId = 1
  /\ m_tvshows = EmptyMap
  /\ m_sourceIds = {}
  /\ announced = [started |-> 0, startOk |-> 0, finished |-> 0, finishOk |-> 0]
  /\ run = "idle"
  /\ calls = [starts |-> 0, adds |-> 0, removals |-> 0]
  /\ nested = {}
  /\ runShows = {}
  /\ databaseManager = NoDatabaseManager
  /\ ret = NoRet

NextDatabase ==
  \/ Initialize
  \/ UpdateDatabaseStarts
  \/ UpdateDatabaseEnds
  \/ Deinitialize

SpecDatabase == InitDatabase /\ [][NextDatabase]_vars

----------------------------------------------------------------------------
\* CTvShowImportHandler::RemoveImportedItem(import, item): a tvshow that was
\* put together from several sources loses the contribution of one import.

\* Most episodes of the tvshow.
MaxEpisodes == 2

\* The path under which each import has contributed to a tvshow, and a path
\* the tvshow has from a local source.
ImportPath(import) == IF import = "A" THEN <<1>> ELSE <<2>>
LocalPath == <<9>>

\* The libraries: the tvshow Foo with any of these paths, tagged with any of
\* the imports, with up to MaxEpisodes episodes.
SharedTvShowLibraries ==
  {[EmptyDb EXCEPT
      !.shows = {[FooRow EXCEPT !.paths = paths]},
      !.episodes = {EpisodeRow(2 + c, Item("Episode", "Foo", 0, 0, <<1, 1, c>>, 1), 1) :
                      c \in 1..n},
      !.links = {Link("tvshow", 1, import) : import \in tagged}] :
     paths \in SUBSET ({ImportPath(import) : import \in Imports} \cup {LocalPath}),
     tagged \in SUBSET Imports,
     n \in 0..MaxEpisodes}

\* The items the caller passes: the local items of the tvshows, with the id
\* of the row or without one, a null item and an item without video tag.
TvShowRemovalItems(d) ==
  UNION {{[kind |-> "video", m_iDbId |-> m_iDbId, id |-> s.id, path |-> s.path,
            m_iEpisode |-> Cardinality(GetEpisodesOfTvShow(d, s.id))] :
             m_iDbId \in {s.id, 0}} : s \in d.shows}
  \cup {NullItem, NoTagItem}

\* GetPathForImportedItem: the paths of the tvshow that belong to the import.
DbGetPathForImportedItem(d, id, import) ==
  {p \in UNION {s.paths : s \in {x \in d.shows : x.id = id}} : p = ImportPath(import)}

\* GetPathsForTvShow
DbGetPathsForTvShow(d, id) ==
  UNION {s.paths : s \in {x \in d.shows : x.id = id}}

\* A removal that deletes the tvshow once it has lost the path of the import,
\* whatever paths remain.
TvShowRemoveImportedItemAnyPaths(d, import, item, failed) ==
  IF ~HasVideoInfoTag(item) THEN [db |-> d, ok |-> FALSE, found |-> FALSE]
  ELSE IF item.m_iDbId <= 0 THEN [db |-> d, ok |-> FALSE, found |-> FALSE]
  ELSE IF DbGetPathForImportedItem(d, item.m_iDbId, import) = {}
  THEN [db |-> d, ok |-> FALSE, found |-> FALSE]
  ELSE [db |-> TvShowRemoveImportedItemDb(d, import, item), ok |-> TRUE,
        found |-> TRUE]

\* RemoveImportedItem(import, item) on m_db: what storage holds afterwards,
\* what the call returns and whether the path of the import was found.
\* failed: GetPathsForTvShow fails.
TvShowRemoveImportedItemOf(d, import, item, failed) ==
  IF ~HasVideoInfoTag(item) THEN [db |-> d, ok |-> FALSE, found |-> FALSE]
  ELSE IF item.m_iDbId <= 0 THEN [db |-> d, ok |-> FALSE, found |-> FALSE]
  ELSE IF DbGetPathForImportedItem(d, item.m_iDbId, import) = {}
  THEN [db |-> d, ok |-> FALSE, found |-> FALSE]
  ELSE LET tvshowPath == CHOOSE p \in DbGetPathForImportedItem(d, item.m_iDbId, import) : TRUE
           d1 == DbRemoveImportFromItem(
                   DbRemovePathFromTvShow(d, item.m_iDbId, tvshowPath),
                   "tvshow", item.m_iDbId, import)
       IN IF failed THEN [db |-> d1, ok |-> FALSE, found |-> TRUE]
          ELSE IF DbGetPathsForTvShow(d1, item.m_iDbId) = {}
          THEN [db |-> TvShowRemoveImportedItemDb(d1, import, item), ok |-> TRUE,
                found |-> TRUE]
          ELSE [db |-> d1, ok |-> TRUE, found |-> TRUE]

\* CTvShowImportHandler::RemoveImportedItem(import, item)
TvShowRemoveImportedItem ==
  /\ NoCallYet
  /\ handler = "tvshow"
  /\ \E import \in Imports, item \in TvShowRemovalItems(db), failed \in BOOLEAN :
       \E res \in {TvShowRemoveImportedItemOf(db, import, item, failed)} :
         /\ db' = res.db
         /\ ret' = [op |-> "RemoveTvShow", import |-> import, item |-> item,
                    failed |-> failed, found |-> res.found, ok |-> res.ok]
  /\ committed' = Durable(db')
  /\ UNCHANGED <<databaseManager, handler, manager, openCount, inTxn, nextId, m_tvshows,
                 m_sourceIds, announced, run, calls, nested, runShows>>

\* A removal is made in a run: m_db is open and its transaction is active.
InitTvShowRemove ==
  /\ handler = "tvshow"
  /\ manager = "ok"
  /\ openCount = 1
  /\ inTxn = TRUE
  /\ db \in SharedTvShowLibraries
  /\ committed = db
  /\ nextId = 3 + MaxEpisodes
  /\ m_tvshows = EmptyMap
  /\ m_sourceIds = {}
  /\ announced = [started |-> 1, startOk |-> 1, finished |-> 0, finishOk |-> 0]
  /\ run = "running"
  /\ calls = [starts |-> 1, adds |-> 0, removals |-> 0]
  /\ nested = {}
  /\ runShows = {}
  /\ databaseManager = NoDatabaseManager
  /\ ret = NoRet

NextTvShowRemove == TvShowRemoveImportedItem

SpecTvShowRemove == InitTvShowRemove /\ [][NextTvShowRemove]_vars

----------------------------------------------------------------------------
\* CTvShowImportHandler::AddImportedItem against libraries with tvshows of
\* the same title.

\* The years and unique ids of the tvshows (0: none).
MaxYear == 2

\* The libraries: no tvshow, one tvshow Foo, or two of them.
LocalTvShow(id, year, uid) ==
  ShowRow(id, Item("Foo", "Foo", year, uid, <<id>>, 0))
TvShowLibraries ==
  {EmptyDb}
  \cup {[EmptyDb EXCEPT !.shows = {LocalTvShow(1, y1, u1)}] :
          y1 \in 0..1, u1 \in 0..1}
  \cup {[EmptyDb EXCEPT !.shows = {LocalTvShow(1, y1, u1), LocalTvShow(2, y2, u2)}] :
          y1 \in 0..1, u1 \in 0..1, y2 \in 0..1, u2 \in 0..1}

\* The incoming tvshows.
IncomingTvShows ==
  {Item(title, title, year, uid, <<3>>, 0) :
     title \in {"Foo", "Bar"}, year \in 0..MaxYear, uid \in 0..MaxYear}

\* The storage calls of the tvshow handler that can fail.
TvShowFaults == {f \in Faults : ~f.fw /\ ~f.cw /\ ~f.ct}

\* AddImportedItem(videodb, import, item) of the tvshow handler, called once.
TvShowAddsImportedItem ==
  /\ NoCallYet
  /\ handler = "tvshow"
  /\ \E item \in IncomingTvShows, f \in TvShowFaults :
     \E h \in {TvShowAddImportedItem(db, m_sourceIds, nextId, item, f)} :
          AddReturns(h.db, h.next, m_tvshows, {}, {},
                     [op |-> "AddTvShow", item |-> item, f |-> f, ok |-> h.ok,
                      dbId |-> h.dbId])

InitTvShowAdd ==
  /\ handler = "tvshow"
  /\ manager = "ok"
  /\ openCount = 1
  /\ inTxn = TRUE
  /\ db \in TvShowLibraries
  /\ committed = db
  /\ nextId = 3
  /\ m_tvshows = EmptyMap
  /\ m_sourceIds = {}
  /\ announced = [started |-> 1, startOk |-> 1, finished |-> 0, finishOk |-> 0]
  /\ run = "running"
  /\ calls = [starts |-> 1, adds |-> 0, removals |-> 0]
  /\ nested = {}
  /\ runShows = {}
  /\ databaseManager = NoDatabaseManager
  /\ ret = NoRet

NextTvShowAdd == TvShowAddsImportedItem

SpecTvShowAdd == InitTvShowAdd /\ [][NextTvShowAdd]_vars

----------------------------------------------------------------------------
\* The imported items between the database manager and a handler: the
\* manager disables them, the handler of movie sets synchronises, updates,
\* removes and cleans up.

\* CVideoImportHandler::SetImportedItemsEnabled(import, enable), called by
\* the owner of the handler: Open, SetImportItemsEnabled, Close. On the open
\* m_db of a run the write is part of the run's transaction.
VideoSetImportedItemsEnabled ==
  /\ \E enable \in BOOLEAN, openOk \in BOOLEAN :
       \E opened \in {IsOpen(openCount) \/ openOk} :
         /\ db' = IF opened THEN SetImportedItemsEnabled(db, enable) ELSE db
         /\ committed' = Durable(db')
         /\ ret' = [NoRet EXCEPT !.op = "SetEnabled", !.ok = opened]
  /\ UNCHANGED <<databaseManager, handler, manager, openCount, inTxn, nextId, m_tvshows,
                 m_sourceIds, announced, run, calls, nested, runShows>>

\* Initialize(false) is under way and has come to the video database: the
\* databases before it are ready. The library holds a movie set of the import
\* whose items an earlier synchronisation enabled. Of the calls of a
\* behaviour one Deinitialize, one run, one Add and one removal are left.
PositionOf(name) == CHOOSE i \in 1..Len(Databases) : Databases[i] = name
UpdatedBefore(name) == {Databases[i] : i \in 1..(PositionOf(name) - 1)}

InitializingDatabaseManager ==
  [NoDatabaseManager EXCEPT
     !.m_dbStatus = [name \in UpdatedBefore("video") |-> DB_READY],
     !.recorded = [name \in DatabaseNames |->
                     IF name \in UpdatedBefore("video") THEN DB_READY ELSE "none"],
     !.deinitialized = DatabaseNames \ UpdatedBefore("video"),
     !.position = PositionOf("video"),
     !.calls = MaxInitializes - 1]

EnabledLibrary ==
  [EmptyDb EXCEPT !.sets = {TrilogyRow},
                  !.links = {Link("movieset", 1, ThisImport)},
                  !.paths = {ThisImport},
                  !.enabled = TRUE]

InitEnabled ==
  /\ handler = "movieset"
  /\ manager = "ok"
  /\ openCount = 0
  /\ inTxn = FALSE
  /\ db = EnabledLibrary
  /\ committed = db
  /\ nextId = 2
  /\ m_tvshows = EmptyMap
  /\ m_sourceIds = {}
  /\ announced = [started |-> MaxStarts - 1, startOk |-> MaxStarts - 1,
                  finished |-> MaxStarts - 1, finishOk |-> MaxStarts - 1]
  /\ run = "done"
  /\ calls = [starts |-> MaxStarts - 1, adds |-> MaxAdds - 1,
              removals |-> MaxRemovals - 1]
  /\ nested = {}
  /\ runShows = {}
  /\ databaseManager = InitializingDatabaseManager
  /\ ret = NoRet

NextEnabled ==
  \/ UpdateDatabaseStarts
  \/ UpdateDatabaseEnds
  \/ Deinitialize
  \/ VideoStartSynchronisation
  \/ MovieSetAddImportedItem
  \/ MovieSetUpdateImportedItem
  \/ MovieSetRemoveImportedItem
  \/ MovieSetCleanupImportedItems
  \/ VideoSetImportedItemsEnabled
  \/ FinishSynchronisation

SpecEnabled == InitEnabled /\ [][NextEnabled]_vars

----------------------------------------------------------------------------
\* The path of the tvshow an episode synthesises.

MaxDepth == 3
Directories == {1, 2}
Paths == UNION {[1..n -> Directories] : n \in 0..MaxDepth}

\* The statements of CEpisodeImportHandler::AddImportedItem that find the path
\* of the synthesised tvshow, for an episode at any path and a source with any
\* base path.
EpisodeSynthesisesShowPath ==
  /\ NoCallYet
  /\ handler = "episode"
  /\ \E path \in Paths, m_basePath \in Paths :
       ret' = [op |-> "ShowPath", path |-> path, m_basePath |-> m_basePath,
               m_strPath |-> ShowPathOf(path, m_basePath)] @@ NoRet
  /\ UNCHANGED <<databaseManager, handler, manager, openCount, inTxn, db, committed, nextId,
                 m_tvshows, m_sourceIds, announced, run, calls, nested, runShows>>

InitShowPath ==
  /\ handler = "episode"
  /\ manager = "ok"
  /\ openCount = 1
  /\ inTxn = TRUE
  /\ db = EmptyDb
  /\ committed = db
  /\ nextId = 1
  /\ m_tvshows = EmptyMap
  /\ m_sourceIds = {}
  /\ announced = [started |-> 1, startOk |-> 1, finished |-> 0, finishOk |-> 0]
  /\ run = "running"
  /\ calls = [starts |-> 1, adds |-> 0, removals |-> 0]
  /\ nested = {}
  /\ runShows = {}
  /\ databaseManager = NoDatabaseManager
  /\ ret = NoRet

NextShowPath == EpisodeSynthesisesShowPath

SpecShowPath == InitShowPath /\ [][NextShowPath]_vars

----------------------------------------------------------------------------
\* PrepareItem and the cache of source identifiers.

\* m_sourceIds as the map it is: the pairs of a source identifier and the id
\* of its path row.
CachedPathIds(sourceIds, sourceId) == {p[2] : p \in {q \in sourceIds : q[1] = sourceId}}

\* "sourcePathId == m_sourceIds.end()", negated.
SourceNeverCached(sourceIds, sourceId) == FALSE
SourceCached(sourceIds, sourceId) == CachedPathIds(sourceIds, sourceId) # {}

\* The path rows of the storage: the id of the row of each source identifier,
\* NoId without a row.
NoPathRows == [pathIds |-> [sourceId \in Imports |-> NoId]]

\* AddPath: the id of the path row of the source, which is added when there
\* is none; -1 when the storage fails.
DbAddPathId(d, sourceId, next, failed) ==
  IF failed THEN [db |-> d, id |-> -1, next |-> next]
  ELSE IF d.pathIds[sourceId] # NoId
       THEN [db |-> d, id |-> d.pathIds[sourceId], next |-> next]
  ELSE [db |-> [DbAddPath(d, sourceId) EXCEPT !.pathIds[sourceId] = next],
        id |-> next, next |-> next + 1]

\* The calls of AddPath and the parent path ids handed out since the run's
\* StartSynchronisation, as the caller has seen them.
PreparedSoFar ==
  IF ret.op = "Prepare" THEN [order |-> ret.order, items |-> ret.items]
  ELSE [order |-> <<>>, items |-> {}]

\* CVideoImportHandler::PrepareItem(import, pItem), called for the items of a
\* run. An item without video tag or an import without source identifier
\* returns at once. The file row of an item that is no folder is not part of
\* the library modelled here.
PrepareItem ==
  /\ run = "running"
  /\ calls.adds < MaxAdds
  /\ \E sourceId \in Imports \cup {""}, hasTag \in BOOLEAN, failed \in BOOLEAN :
       IF ~hasTag \/ sourceId = ""
       THEN /\ ret' = [NoRet EXCEPT !.op = "Prepare", !.import = sourceId,
                                    !.order = PreparedSoFar.order,
                                    !.items = PreparedSoFar.items]
            /\ UNCHANGED <<db, committed, nextId, m_sourceIds>>
       ELSE \E added \in {DbAddPathId(db, sourceId, nextId, failed)} :
            \E cached \in {SourceCached(m_sourceIds, sourceId)} :
            \E idPath \in (IF cached THEN CachedPathIds(m_sourceIds, sourceId)
                           ELSE {added.id}) :
              /\ db' = IF cached THEN db ELSE added.db
              /\ committed' = Durable(db')
              /\ nextId' = IF cached THEN nextId ELSE added.next
              /\ m_sourceIds' = IF cached THEN m_sourceIds
                                ELSE m_sourceIds \cup {<<sourceId, idPath>>}
              /\ ret' = [NoRet EXCEPT
                           !.op = "Prepare", !.ok = TRUE, !.import = sourceId,
                           !.via = IF cached THEN "cache" ELSE "AddPath",
                           !.parentId = idPath,
                           !.order = IF cached THEN PreparedSoFar.order
                                     ELSE Append(PreparedSoFar.order, sourceId),
                           !.items = PreparedSoFar.items \cup {<<sourceId, idPath>>}]
  /\ calls' = [calls EXCEPT !.adds = @ + 1]
  /\ UNCHANGED <<databaseManager, handler, manager, openCount, inTxn, m_tvshows,
                 announced, run, nested, runShows>>

InitPrepare ==
  /\ handler \in {"movie", "musicvideo"}
  /\ manager = "ok"
  /\ openCount = 0
  /\ inTxn = FALSE
  /\ db = EmptyDb @@ NoPathRows
  /\ committed = db
  /\ nextId = 1
  /\ m_tvshows = EmptyMap
  /\ m_sourceIds = {}
  /\ announced = [started |-> 0, startOk |-> 0, finished |-> 0, finishOk |-> 0]
  /\ run = "idle"
  /\ calls = [starts |-> 0, adds |-> 0, removals |-> 0]
  /\ nested = {}
  /\ runShows = {}
  /\ databaseManager = NoDatabaseManager
  /\ ret = NoRet

NextPrepare ==
  \/ VideoStartSynchronisation
  \/ PrepareItem
  \/ FinishSynchronisation

SpecPrepare == InitPrepare /\ [][NextPrepare]_vars

----------------------------------------------------------------------------
\* Claims about the synchronisation run.

\* C1: when a phase of the run fails before the commit, the transaction of the
\* run is rolled back: no transaction is active and storage holds nothing
\* beyond what is durable.
C1_FailedRunRolledBack ==
  run = "failed" => ~inTxn /\ db = committed

\* C2: in a run of the Episode handler, once an Add has stored the tvshow of a
\* show title under the id D1 > 0, every later Add for that title resolves to
\* D1, whether the tvshow was stored by the tvshow handler or, the handler
\* having stored nothing, by the direct fallback.
C2_SameShowForLaterAdds ==
  /\ handler = "episode"
  /\ ret.op = "Add"
  /\ ret.ok
  /\ \/ ret.via = "handler"
     \/ ret.via = "fallback" /\ ret.handlerId <= 0
  => /\ ret.showId > 0
     /\ \A item \in EpisodeItems :
          item.showTitle = ret.showTitle
            => FindTvShowId(m_tvshows, item) = {ret.showId}

\* C3: a child the Episode or the Season handler persists is written with a
\* showId > 0 that is the id under which its parent tvshow is stored, and a
\* season whose tvshow the tvshow handler created carries the id that handler
\* assigned.
C3_ChildBoundToParent ==
  handler \in {"episode", "season"} /\ ret.op = "Add"
    => /\ ret.dbId > 0
            => /\ ret.showId > 0
               /\ ret.showId = ret.parentId
               /\ \E s \in db.shows : s.id = ret.showId
       /\ ret.via = "handler" => ret.showId = ret.handlerId

\* C4: when neither the tvshow handler nor the direct fallback obtains a valid
\* id for the parent tvshow, AddImportedItem of the child returns false, the
\* child is not persisted and no tag is registered for it.
C4_ParentFailureFailsAdd ==
  /\ handler \in {"episode", "season"}
  /\ ret.op = "Add"
  /\ ret.via = "fallback"
  /\ ret.handlerId <= 0
  /\ ret.parentId <= 0
  => /\ ~ret.ok
     /\ ret.dbId <= 0
     /\ Link(handler, ret.dbId, ThisImport) \notin db.links

\* C5: after an Add that returned true, the item it persisted and the parent
\* tvshow it stored for the item each carry the tag of the import.
C5_PersistedIsTagged ==
  ret.op = "Add" /\ ret.ok
    => /\ Link(handler, ret.dbId, ThisImport) \in db.links
       /\ ret.via \in {"handler", "fallback"}
            => Link("tvshow", ret.parentId, ThisImport) \in db.links

\* C9: every nested call of a child handler to the tvshow handler works on the
\* connection of the run.
C9_NestedCallsOnRunConnection ==
  \A n \in nested : n.conn = "run"

\* C10: scan-started is announced once per StartSynchronisation that returned
\* true and scan-finished once per FinishSynchronisation that returned true
\* after such a start, and never otherwise.
C10_AnnouncedOncePerSuccess ==
  /\ announced.started = announced.startOk
  /\ announced.finished = announced.finishOk
  /\ announced.finished <= announced.startOk

\* The step of C11: what FinishSynchronisation leaves when m_db is not open.
C11_FinishWithoutSessionStep ==
  ret'.op = "Finish" /\ openCount = 0
    => /\ ~ret'.ok
       /\ db' = db
       /\ committed' = committed
       /\ announced' = announced
       /\ openCount' = openCount
       /\ inTxn' = inTxn
       /\ run' = run

\* C11: FinishSynchronisation called while no session is open returns false
\* and has no effect: nothing is committed, no item is enabled, scan-finished
\* is not announced.
C11_FinishWithoutSession == [][C11_FinishWithoutSessionStep]_vars

\* FinishSynchronisation has returned false after an earlier one had finished
\* a run.
C11_Witness ==
  /\ ret.op = "Finish"
  /\ ~ret.ok
  /\ openCount = 0
  /\ announced.finishOk > 0

\* The step of C12: when a StartSynchronisation is made.
C12_RunsNotInFlightTogetherStep ==
  ret'.op = "Start" /\ calls'.starts = calls.starts + 1 => run # "running"

----------------------------------------------------------------------------
\* Claims about removal and cleanup.

\* The step of C6: what a call leaves, given what it found.
C6_GuardedCleanupLeavesSetStep ==
  handler = "movieset" /\ ret'.op = "Cleanup"
    => \A s \in db.sets :
         GetImportedMoviesInSet(db, s.id, ret'.import) # {}
           => /\ s \in db'.sets
              /\ {l \in db'.links : l.type = "movieset" /\ l.id = s.id}
                   = {l \in db.links : l.type = "movieset" /\ l.id = s.id}
              /\ GetMoviesInSet(db', s.id) = GetMoviesInSet(db, s.id)

C7_TwoTierSetRemovalStep ==
  handler = "movieset" /\ ret'.op \in {"Remove", "Cleanup"}
    /\ ret'.ok /\ ret'.fault = "none"
    => \A s \in db.sets :
         LET imported == Cardinality(GetImportedMoviesInSet(db, s.id, ret'.import))
             all == Cardinality(GetMoviesInSet(db, s.id))
             acted == /\ s.id \in ret'.items
                      /\ ret'.op = "Cleanup" => imported <= 0
         IN acted
              => IF all > imported
                 THEN /\ s \in db'.sets
                      /\ Link("movieset", s.id, ret'.import) \notin db'.links
                      /\ GetMoviesInSet(db', s.id) = GetMoviesInSet(db, s.id)
                 ELSE s.id \notin {x.id : x \in db'.sets}

ParentRows(d) == IF handler = "tvshow" THEN d.shows ELSE d.seasons
ParentIds(d) == {p.id : p \in ParentRows(d)}
EpisodesOfParent(d, p) ==
  IF handler = "tvshow" THEN GetEpisodesOfTvShow(d, p.id)
  ELSE GetEpisodesOfSeason(d, p.showId, p.season)
ImportedEpisodesOfParent(d, p, import) ==
  {e \in EpisodesOfParent(d, p) : e.id \in LinkedIds(d, "episode", import)}

\* The step of C8: what a call leaves, given what it found.
C8_ParentOutlivesImportStep ==
  handler \in {"tvshow", "season"} /\ ret'.op \in {"Cleanup", "RemoveItems"}
    /\ ret'.ok /\ ret'.fault = "none"
    => \A p \in ParentRows(db) :
         p.id \in ret'.items /\ ImportedEpisodesOfParent(db, p, ret'.import) = {}
           => IF EpisodesOfParent(db, p) # {}
              THEN /\ p.id \in ParentIds(db')
                   /\ Link(handler, p.id, ret'.import) \notin db'.links
              ELSE p.id \notin ParentIds(db')

\* C8: when the episodes of an import are gone, the removal or cleanup of a
\* tvshow or season for that import only removes the tag of the import as
\* long as the parent has other episodes, and deletes the parent once it has
\* no episode left.
C8_ParentOutlivesImport == [][C8_ParentOutlivesImportStep]_vars

\* A parent the call went over has lost the tag of the import and is still
\* there with the episodes of the other import.
C8_Witness ==
  /\ handler \in {"tvshow", "season"}
  /\ ret.op \in {"Cleanup", "RemoveItems"}
  /\ ret.ok
  /\ ret.fault = "none"
  /\ \E p \in ParentRows(db) :
       /\ p.id \in ret.items
       /\ Link(handler, p.id, ret.import) \notin db.links
       /\ ImportedEpisodesOfParent(db, p, ret.import) = {}
       /\ \E other \in Imports \ {ret.import} :
            /\ ImportedEpisodesOfParent(db, p, other) # {}
            /\ Link(handler, p.id, other) \in db.links

----------------------------------------------------------------------------
\* Claims about the changeset detection.

\* C13: without all metadata, two items with video tags compare equal exactly
\* when their play count, last-played time and resume seconds are equal,
\* whatever else differs between them.
C13_LightweightCompare ==
  /\ ret.op = "Compare"
  /\ ~ret.allMetadata
  /\ HasVideoInfoTag(ret.originalItem)
  /\ HasVideoInfoTag(ret.newItem)
  => (ret.equal <=> /\ ret.originalItem.playCount = ret.newItem.playCount
                    /\ ret.originalItem.m_lastPlayed = ret.newItem.m_lastPlayed
                    /\ ret.originalItem.resume = ret.newItem.resume)

\* A lightweight comparison of two items whose playback state agrees and
\* whose artwork and details differ has come out equal.
C13_Witness ==
  /\ ret.op = "Compare"
  /\ ~ret.allMetadata
  /\ HasVideoInfoTag(ret.originalItem)
  /\ HasVideoInfoTag(ret.newItem)
  /\ ret.equal
  /\ ret.originalItem.art # ret.newItem.art
  /\ ret.originalItem.details # ret.newItem.details

\* C14: with all metadata and playback metadata, two items with the same
\* artwork whose tags differ only in fields of the handler's
\* IgnoreDifferences() compare equal.
C14_IgnoredDifferences ==
  /\ ret.op = "Compare"
  /\ ret.allMetadata
  /\ ret.playbackMetadata
  /\ HasVideoInfoTag(ret.originalItem)
  /\ HasVideoInfoTag(ret.newItem)
  /\ ret.originalItem.art = ret.newItem.art
  /\ GetDifferences(ret.originalItem, ret.newItem) \subseteq IgnoreDifferences(handler)
  => ret.equal

\* A full comparison of two items that differ in an ignored field, and in
\* nothing else, has come out equal.
C14_Witness ==
  /\ ret.op = "Compare"
  /\ ret.allMetadata
  /\ ret.playbackMetadata
  /\ HasVideoInfoTag(ret.originalItem)
  /\ HasVideoInfoTag(ret.newItem)
  /\ ret.originalItem.art = ret.newItem.art
  /\ GetDifferences(ret.originalItem, ret.newItem) # {}
  /\ GetDifferences(ret.originalItem, ret.newItem) \subseteq IgnoreDifferences(handler)
  /\ ret.equal

\* C15: in a full comparison of two items whose tags agree, artwork maps of
\* equal size with different values make the items unequal, and an original
\* map that is the incoming map plus entries that are all automatic (default
\* image, image:// URL, key with a parent prefix of the item's type) makes
\* them equal.
C15_ArtworkComparison ==
  /\ ret.op = "Compare"
  /\ ret.allMetadata
  /\ HasVideoInfoTag(ret.originalItem)
  /\ HasVideoInfoTag(ret.newItem)
  /\ TagEquals(ret.originalItem, ret.newItem)
  => LET originalArt == ret.originalItem.art
         newArt == ret.newItem.art
     IN /\ /\ originalArt # newArt
           /\ Cardinality(DOMAIN originalArt) = Cardinality(DOMAIN newArt)
           => ~ret.equal
        /\ /\ DOMAIN newArt \subseteq DOMAIN originalArt
           /\ DOMAIN newArt # DOMAIN originalArt
           /\ \A k \in DOMAIN newArt : originalArt[k] = newArt[k]
           /\ \A k \in DOMAIN originalArt \ DOMAIN newArt :
                IsAutoArtwork(k, originalArt[k], ParentPrefixes(ret.originalItem.m_type))
           => ret.equal

\* C16 as stated: in a full comparison, artwork maps that differ in their
\* number of entries make the items unequal.
C16_CountShortCircuit ==
  /\ ret.op = "Compare"
  /\ ret.allMetadata
  /\ HasVideoInfoTag(ret.originalItem)
  /\ HasVideoInfoTag(ret.newItem)
  /\ Cardinality(DOMAIN ret.originalItem.art) # Cardinality(DOMAIN ret.newItem.art)
  => ~ret.equal

\* C16 amended: in a full comparison, artwork maps that differ but have the
\* same number of entries make the items unequal without any stripping; when
\* the numbers of entries differ the automatic artwork is stripped from the
\* original map, the items are unequal if the stripped map still differs from
\* the incoming map, and with agreeing tags they are equal if it does not.
C16_SameCountShortCircuit ==
  /\ ret.op = "Compare"
  /\ ret.allMetadata
  /\ HasVideoInfoTag(ret.originalItem)
  /\ HasVideoInfoTag(ret.newItem)
  => LET originalArt == ret.originalItem.art
         newArt == ret.newItem.art
         stripped == RemoveAutoArtwork(originalArt,
                                       ParentPrefixes(ret.originalItem.m_type))
     IN /\ /\ originalArt # newArt
           /\ Cardinality(DOMAIN originalArt) = Cardinality(DOMAIN newArt)
           => ~ret.equal
        /\ /\ Cardinality(DOMAIN originalArt) # Cardinality(DOMAIN newArt)
           /\ stripped # newArt
           => ~ret.equal
        /\ /\ Cardinality(DOMAIN originalArt) # Cardinality(DOMAIN newArt)
           /\ stripped = newArt
           /\ TagEquals(ret.originalItem, ret.newItem)
           => ret.equal

C16_Witness ==
  /\ ret.op = "Compare"
  /\ ret.allMetadata
  /\ HasVideoInfoTag(ret.originalItem)
  /\ HasVideoInfoTag(ret.newItem)
  /\ Cardinality(DOMAIN ret.originalItem.art) > Cardinality(DOMAIN ret.newItem.art)
  /\ ret.newItem.art # <<>>
  /\ ret.equal

\* C17: in a full comparison of two items that differ only in play count,
\* last played or resume point, the items are equal when playback metadata is
\* not compared; when it is compared they are equal only if the handler
\* ignores every differing playback field.
C17_PlaybackDifferences ==
  /\ ret.op = "Compare"
  /\ ret.allMetadata
  /\ HasVideoInfoTag(ret.originalItem)
  /\ HasVideoInfoTag(ret.newItem)
  /\ ret.originalItem.art = ret.newItem.art
  /\ ret.originalItem.details = ret.newItem.details
  /\ ret.originalItem.m_cast = ret.newItem.m_cast
  => LET differing ==
           (IF ret.originalItem.playCount # ret.newItem.playCount
            THEN {"FieldPlaycount"} ELSE {})
           \cup (IF ret.originalItem.m_lastPlayed # ret.newItem.m_lastPlayed
                 THEN {"FieldLastPlayed"} ELSE {})
           \cup (IF ret.originalItem.resume # ret.newItem.resume
                 THEN {"FieldInProgress"} ELSE {})
     IN IF ret.playbackMetadata
        THEN ret.equal <=> differing \subseteq IgnoreDifferences(handler)
        ELSE ret.equal

C17_Witness ==
  /\ ret.op = "Compare"
  /\ ret.allMetadata
  /\ ~ret.playbackMetadata
  /\ HasVideoInfoTag(ret.originalItem)
  /\ HasVideoInfoTag(ret.newItem)
  /\ ret.originalItem.art = ret.newItem.art
  /\ ret.originalItem.details = ret.newItem.details
  /\ ret.originalItem.m_cast = ret.newItem.m_cast
  /\ ret.originalItem.resume # ret.newItem.resume
  /\ "FieldInProgress" \notin IgnoreDifferences(handler)
  /\ ret.equal

\* C18: in a full comparison by a handler that does not ignore the cast, of
\* two items whose only difference is the cast, the items are equal exactly
\* when the incoming cast is empty, or both casts have the same length and
\* agree index by index on name and role and on thumb and thumb URL wherever
\* the incoming one is not empty.
C18_CastDifferences ==
  /\ ret.op = "Compare"
  /\ ret.allMetadata
  /\ HasVideoInfoTag(ret.originalItem)
  /\ HasVideoInfoTag(ret.newItem)
  /\ "FieldActor" \notin IgnoreDifferences(handler)
  /\ ret.originalItem.art = ret.newItem.art
  /\ GetDifferences(ret.originalItem, ret.newItem) = {"FieldActor"}
  => LET originalCast == ret.originalItem.m_cast
         newCast == ret.newItem.m_cast
     IN ret.equal <=>
          \/ newCast = <<>>
          \/ /\ Len(originalCast) = Len(newCast)
             /\ \A i \in 1..Len(newCast) :
                  /\ originalCast[i].strName = newCast[i].strName
                  /\ originalCast[i].strRole = newCast[i].strRole
                  /\ newCast[i].thumb # "" => originalCast[i].thumb = newCast[i].thumb
                  /\ newCast[i].thumbUrl # ""
                       => originalCast[i].thumbUrl = newCast[i].thumbUrl

C18_Witness ==
  /\ ret.op = "Compare"
  /\ ret.allMetadata
  /\ HasVideoInfoTag(ret.originalItem)
  /\ HasVideoInfoTag(ret.newItem)
  /\ "FieldActor" \notin IgnoreDifferences(handler)
  /\ GetDifferences(ret.originalItem, ret.newItem) = {"FieldActor"}
  /\ ret.newItem.m_cast # <<>>
  /\ ret.newItem.m_cast[1].thumb = ""
  /\ ret.equal

\* C19: DetermineChangeset returns None or Changed; it returns Changed exactly
\* when both items have a video tag and Compare of the local item, as the
\* loading of its details left it, with the incoming item under the two
\* settings of the import reports unequal; when the loading fails the result
\* is that of comparing the local item as it was passed.
C19_ChangesetNoneOrChanged ==
  ret.op = "DetermineChangeset"
  => /\ ret.changeset \in {"None", "Changed"}
     /\ ret.changeset = "Changed" <=>
          /\ HasVideoInfoTag(ret.item)
          /\ HasVideoInfoTag(ret.localItem)
          /\ ~Compare(handler, ret.localAfter, ret.item,
                      ret.settings.UpdateImportedMediaItems,
                      ret.settings.UpdatePlaybackMetadataFromSource)
     /\ ~ret.loaded => ret.localAfter = ret.localItem

C19_Witness ==
  /\ ret.op = "DetermineChangeset"
  /\ HasVideoInfoTag(ret.item)
  /\ HasVideoInfoTag(ret.localItem)
  /\ ~ret.loaded
  /\ ret.changeset = "Changed"

\* C20: PrepareImportedItem gives the incoming item the dbId, fileId, showId,
\* seasonId, source, base path and parent path id of the local item and leaves
\* every other field of it and the local item as they were; when an item or a
\* video tag is missing it changes nothing.
C20_PrepareCopiesIdentity ==
  ret.op = "PrepareImportedItem"
  => /\ ret.localAfter = ret.localItem
     /\ DOMAIN ret.itemAfter = DOMAIN ret.item
     /\ IF HasVideoInfoTag(ret.item) /\ HasVideoInfoTag(ret.localItem)
        THEN \A f \in DOMAIN ret.item :
               ret.itemAfter[f] =
                 IF f \in {"m_iDbId", "m_iFileId", "m_iIdShow", "m_iIdSeason",
                           "source", "m_basePath", "m_parentPathID"}
                 THEN ret.localItem[f] ELSE ret.item[f]
        ELSE ret.itemAfter = ret.item

C20_Witness ==
  /\ ret.op = "PrepareImportedItem"
  /\ HasVideoInfoTag(ret.item)
  /\ HasVideoInfoTag(ret.localItem)
  /\ ret.itemAfter.m_iIdSeason = ret.localItem.m_iIdSeason
  /\ ret.itemAfter # ret.item
  /\ ret.itemAfter.art = ret.item.art

----------------------------------------------------------------------------
\* Claims about UpdateImportedItem.

\* C21: for every handler, UpdateImportedItem of a null item, an item without
\* a video tag or an item whose m_iDbId is <= 0 returns false and writes
\* nothing to storage; with a valid m_iDbId it changes no row but the one of
\* that id in the table of the handler's type, and it returns false when
\* storage reports an id <= 0.
C21_UpdateNeedsDbId ==
  ret.op = "Update"
  => IF ~HasVideoInfoTag(ret.item) \/ ret.item.m_iDbId <= 0
     THEN ~ret.ok /\ ret.writes = {} /\ db = committed
     ELSE /\ ret.failed => ~ret.ok
          /\ \A t \in Tables :
               {r \in db[t] : t # TableOf(handler) \/ r.id # ret.item.m_iDbId}
                 = {r \in committed[t] :
                      t # TableOf(handler) \/ r.id # ret.item.m_iDbId}
          /\ db.links = committed.links
          /\ ret.ok => /\ "SetDetails" \in ret.writes
                       /\ \E r \in db[TableOf(handler)] : r.id = ret.item.m_iDbId

C21_Witness ==
  /\ ret.op = "Update"
  /\ HasVideoInfoTag(ret.item)
  /\ ret.item.m_iDbId > 0
  /\ ret.ok
  /\ db # committed

----------------------------------------------------------------------------
\* Claims about the resolution of the parent tvshow.

\* C22: importing the same season again creates neither a second tvshow of
\* its show title nor a second season of that show and season number: the
\* library of the Season handler never holds two of either.
C22_SameSeasonTwice ==
  handler = "season"
  => /\ \A s1 \in db.shows, s2 \in db.shows : s1.title = s2.title => s1.id = s2.id
     /\ \A s1 \in db.seasons, s2 \in db.seasons :
          s1.showTitle = s2.showTitle /\ s1.season = s2.season => s1.id = s2.id

\* C23: FindTvShowId of the Episode and the Season handler returns -1 for an
\* item without a show title or a title without candidates, the id of the
\* candidate when there is exactly one, whatever its path, and with several
\* candidates the id of one whose path is a parent of the child's path, or -1
\* if there is none.
C23_ParentTieBreak ==
  ret.op = "FindTvShowId" /\ HasVideoInfoTag(ret.item)
  => LET c == m_tvshows[ret.item.showTitle]
         parents == {i \in 1..Len(c) : PathHasParent(ret.item.path, c[i].path)}
     IN IF ret.item.showTitle = "" \/ Len(c) = 0 THEN ret.found = -1
        ELSE IF Len(c) = 1 THEN ret.found = c[1].dbId
        ELSE IF parents = {} THEN ret.found = -1
        ELSE \E i \in parents : ret.found = c[i].dbId

C23_Witness ==
  /\ ret.op = "FindTvShowId"
  /\ HasVideoInfoTag(ret.item)
  /\ Len(m_tvshows[ret.item.showTitle]) = 3
  /\ ret.found > 0
  /\ \E i \in 1..3 : ~PathHasParent(ret.item.path, m_tvshows[ret.item.showTitle][i].path)

\* C24: the tvshow FindTvShowId resolves a child to through the map of the run
\* does not have a year that differs from the child's year, both having one.
C24_YearRespected ==
  ret.op = "FindTvShowId" /\ HasVideoInfoTag(ret.item) /\ ret.found > 0
  => LET c == m_tvshows[ret.item.showTitle]
     IN \A i \in 1..Len(c) :
          c[i].dbId = ret.found
            => ~(HasYear(c[i].year) /\ HasYear(ret.item.year)
                 /\ c[i].year # ret.item.year)

----------------------------------------------------------------------------
\* Claims about FindMatchingLocalItem.

\* C29: FindMatchingLocalItem returns the first local item of the list that
\* has the identity of the incoming item, and none if there is no such item
\* or the incoming item has no video tag. The identity is the path for
\* movies, episodes and music videos, title and year for tvshows, show title,
\* season number and (unless one side has no year) year for seasons, and the
\* title for movie sets.
C29_FirstMatchingLocalItem ==
  ret.op = "FindMatchingLocalItem"
  => LET item == ret.item
         Same(l) ==
           IF handler \in {"movie", "episode", "musicvideo"}
           THEN HasVideoInfoTag(l) /\ l.path = item.path
           ELSE IF handler = "tvshow"
           THEN l.title = item.title /\ l.year = item.year
           ELSE IF handler = "season"
           THEN /\ l.showTitle = item.showTitle
                /\ l.season = item.season
                /\ l.year = item.year \/ l.year <= 0 \/ item.year <= 0
           ELSE l.title = item.title
         n == Len(ret.localItems)
     IN IF ~HasVideoInfoTag(item) THEN ret.index = 0
        ELSE IF \E i \in 1..n : Same(ret.localItems[i])
        THEN /\ ret.index \in 1..n
             /\ Same(ret.localItems[ret.index])
             /\ \A j \in 1..(ret.index - 1) : ~Same(ret.localItems[j])
        ELSE ret.index = 0

\* The Season handler has passed over a season of another year and returned
\* the second local item.
C29_Witness ==
  /\ ret.op = "FindMatchingLocalItem"
  /\ handler = "season"
  /\ ret.index = 2
  /\ ret.localItems[1].showTitle = ret.item.showTitle
  /\ ret.localItems[1].season = ret.item.season

----------------------------------------------------------------------------
\* Claims about the transactions of cleanup and bulk removal.

\* The step of C26: what a CleanupImportedItems call leaves.
C26_CleanupCommitsOwnTransactionStep ==
  ret'.op = "Cleanup"
  => /\ ret'.txn \in {"none", "committed"}
     /\ ~inTxn'
     /\ committed' = db'
     /\ ret'.txn = "none" => ~ret'.ok /\ db' = db
     /\ ret'.fault \in {"imported", "all"} => ret'.txn = "committed" /\ db' = db

\* C26: CleanupImportedItems of the TvShow, Season and MovieSet handlers
\* commits every transaction it begins before it returns, never rolls one back
\* and never leaves one active; when the count query of a parent fails the
\* parent is skipped and left as it was, and the commit still takes place.
C26_CleanupCommitsOwnTransaction == [][C26_CleanupCommitsOwnTransactionStep]_vars

\* A cleanup whose count queries failed has committed, and one before it has
\* changed the library.
C26_Witness ==
  /\ ret.op = "Cleanup"
  /\ ret.fault = "imported"
  /\ ret.txn = "committed"
  /\ ret.items # {}
  /\ ~inTxn
  /\ calls.removals > 1

\* The step of C27: what a RemoveImportedItems(import) call leaves.
C27_BulkRemovalAllOrNothingStep ==
  ret'.op \in {"RemoveItems", "RemoveChildItems"}
  => /\ openCount' = openCount
     /\ ~inTxn'
     /\ IF ret'.fault = "open"
        THEN /\ ~ret'.ok
             /\ ret'.txn = "none"
             /\ db' = db
             /\ committed' = committed
        ELSE IF ret'.ok
        THEN ret'.txn = "committed" /\ committed' = db'
        ELSE /\ ret'.txn = "rolledback"
             /\ db' = db
             /\ committed' = committed

\* C27: RemoveImportedItems(import) opens storage and begins a transaction;
\* when the removal of the handler's type succeeds the transaction is
\* committed and the call returns true, otherwise it is rolled back, storage is
\* what it was and the call returns false; when storage cannot be opened the
\* call returns false and changes nothing. The connection is closed either
\* way.
C27_BulkRemovalAllOrNothing == [][C27_BulkRemovalAllOrNothingStep]_vars

\* A bulk removal that failed after deleting some of the import's rows has
\* been rolled back.
C27_Witness ==
  /\ ret.op = "RemoveChildItems"
  /\ ret.fault = "delete"
  /\ ~ret.ok
  /\ ret.txn = "rolledback"
  /\ Cardinality(ret.items) > 1
  /\ db = committed

\* The step of C28: what a cleanup of the tvshow or season handler leaves of
\* the parents it went over, given the episodes it found.
C28_ImportedCountOnlyStep ==
  /\ handler \in {"tvshow", "season"}
  /\ ret'.op = "Cleanup"
  /\ ret'.ok
  /\ ret'.fault = "none"
  => \A p \in ParentRows(db) :
       p.id \in ret'.items
         => IF ImportedEpisodesOfParent(db, p, ret'.import) # {}
            THEN /\ p \in ParentRows(db')
                 /\ {l \in db'.links : l.type = handler /\ l.id = p.id}
                      = {l \in db.links : l.type = handler /\ l.id = p.id}
            ELSE Link(handler, p.id, ret'.import) \notin db'.links

C30_SeasonItemRemovalKeepsSeasonStep ==
  handler = "season"
  => /\ ret'.op = "Remove"
          => /\ db' = db
             /\ committed' = committed
             /\ ret'.ok <=> ret'.items # {}
     /\ \/ db'.seasons # db.seasons
        \/ {l \in db'.links : l.type = "season"} # {l \in db.links : l.type = "season"}
        => ret'.op \in {"Cleanup", "RemoveItems"}

\* C30: RemoveImportedItem(import, item) of the Season handler returns true
\* for every item with a video tag and leaves storage unchanged; a season is
\* deleted or loses its tag only in CleanupImportedItems or
\* RemoveImportedItems(import).
C30_SeasonItemRemovalKeepsSeason == [][C30_SeasonItemRemovalKeepsSeasonStep]_vars

\* The per-item removal has returned true for a season without any episode
\* left, which is still there with its tag.
C30_Witness ==
  /\ handler = "season"
  /\ ret.op = "Remove"
  /\ ret.ok
  /\ \E s \in db.seasons :
       /\ s.id \in ret.items
       /\ Link("season", s.id, ret.import) \in db.links
       /\ GetEpisodesOfSeason(db, s.showId, s.season) = {}

----------------------------------------------------------------------------
\* Claims about the status of the databases.

\* C25: CanOpen(name) is true exactly when the last status recorded for the
\* name is Ready and no Deinitialize came after it; it is false while the
\* database is updating, after a failed update, for a database never
\* attempted and for every database after Deinitialize.
C25_CanOpenIffReady ==
  \A name \in DatabaseNames :
    /\ CanOpen(name) <=> /\ databaseManager.recorded[name] = DB_READY
                         /\ name \notin databaseManager.deinitialized
    /\ databaseManager.recorded[name] \in {DB_UPDATING, DB_FAILED, "none"}
         => ~CanOpen(name)
    /\ name \in databaseManager.deinitialized => ~CanOpen(name)

\* In the middle of a second Initialize: one database is ready again, one is
\* updating, one was ready before the Deinitialize and one has failed.
C25_Witness ==
  /\ databaseManager.calls = 2
  /\ databaseManager.updating
  /\ CanOpen("addons")
  /\ databaseManager.recorded["view"] = DB_FAILED
  /\ databaseManager.recorded["texture"] = DB_UPDATING
  /\ ~CanOpen("texture")
  /\ databaseManager.recorded["epg"] = DB_READY
  /\ "epg" \in databaseManager.deinitialized
  /\ ~CanOpen("epg")

----------------------------------------------------------------------------
\* Claims about the removal of a tvshow for one import.

\* The step of C31: what RemoveImportedItem(import, item) of the tvshow
\* handler leaves of the tvshow of the item.
C31_TvShowLosesOneImportStep ==
  ret'.op = "RemoveTvShow"
  => LET item == ret'.item
         import == ret'.import
         before == {s \in db.shows : HasVideoInfoTag(item) /\ s.id = item.m_iDbId}
         after == {s \in db'.shows : HasVideoInfoTag(item) /\ s.id = item.m_iDbId}
     IN /\ ret'.ok => /\ Link("tvshow", item.m_iDbId, import) \notin db'.links
                      /\ \A s \in after : ImportPath(import) \notin s.paths
        /\ \A s \in before :
             /\ after = {}
                  => /\ s.paths \ {ImportPath(import)} = {}
                     /\ GetEpisodesOfTvShow(db, s.id) = {}
             /\ s.paths \ {ImportPath(import)} # {} => after # {}
             /\ ImportPath(import) \notin s.paths => ~ret'.ok /\ db' = db
        /\ ~ret'.found => ~ret'.ok /\ db' = db
        /\ db'.episodes = db.episodes

\* C31: RemoveImportedItem(import, item) of the tvshow handler removes the
\* import's path and tag from the tvshow; the tvshow is deleted only when no
\* path remains and it has no episodes, so a tvshow with a path of another
\* source survives; when the tvshow has no path of the import the call returns
\* false and changes nothing.
C31_TvShowLosesOneImport == [][C31_TvShowLosesOneImportStep]_vars

\* The tvshow had the paths of both imports and no episode; it has lost the
\* path and the tag of the import and is still there.
C31_Witness ==
  /\ ret.op = "RemoveTvShow"
  /\ ret.ok
  /\ committed.shows # {}
  /\ \A s \in committed.shows :
       /\ s.paths = {ImportPath("A"), ImportPath("B")}
       /\ GetEpisodesOfTvShow(committed, s.id) = {}
  /\ Link("tvshow", 1, ret.import) \in committed.links
  /\ Link("tvshow", 1, ret.import) \notin db.links
  /\ \E s \in db.shows : Cardinality(s.paths) = 1

----------------------------------------------------------------------------
\* Claims about AddImportedItem of the tvshow handler.

\* The tvshows of the title of the item, and those among them with the
\* unique id or the known year of the item.
C32_SameTitle(d, item) == {s \in d.shows : s.title = item.title}
C32_Exact(d, item) ==
  {s \in C32_SameTitle(d, item) :
     \/ HasUniqueID(s.uid) /\ s.uid = item.uid
     \/ HasYear(s.year) /\ s.year = item.year}

\* The step of C32: what a successful AddImportedItem whose reads succeeded
\* leaves, given the tvshows of the same title.
C32_ReusesExistingTvShowStep ==
  /\ ret'.op = "AddTvShow"
  /\ ret'.ok
  /\ ~ret'.f.gi
  => LET item == ret'.item
         same == C32_SameTitle(db, item)
         exact == C32_Exact(db, item)
         first == {s \in same : \A t \in same : s.id <= t.id}
         reused == IF exact # {} THEN exact
                   ELSE IF ~HasUniqueID(item.uid) /\ ~HasYear(item.year) THEN first
                   ELSE {}
     IN IF reused # {}
        THEN /\ \E s \in reused :
                  /\ ret'.dbId = s.id
                  /\ db'.shows = (db.shows \ {s}) \cup {[s EXCEPT !.paths = @ \cup {item.path}]}
             /\ Link("tvshow", ret'.dbId, ThisImport) \in db'.links
        ELSE /\ ret'.dbId \notin {s.id : s \in db.shows}
             /\ db'.shows = db.shows \cup {ShowRow(ret'.dbId, item)}
             /\ Link("tvshow", ret'.dbId, ThisImport) \in db'.links

\* C32: AddImportedItem of the tvshow handler reuses an existing tvshow of
\* the same title that has the item's unique id or the item's known year, or
\* the first tvshow of the title when the item has neither unique id nor year;
\* the item gets that tvshow's id, its path is added to the tvshow and the
\* tvshow keeps its details. Otherwise a new tvshow is created.
C32_ReusesExistingTvShow == [][C32_ReusesExistingTvShowStep]_vars

\* An item with a year and without unique id has been merged into the
\* second tvshow of its title, which has that year.
C32_Witness ==
  /\ ret.op = "AddTvShow"
  /\ ret.ok
  /\ ret.dbId = 2
  /\ HasYear(ret.item.year)
  /\ ~HasUniqueID(ret.item.uid)
  /\ Cardinality(db.shows) = 2
  /\ \E s \in db.shows : s.id = 2 /\ s.year = ret.item.year /\ ret.item.path \in s.paths

----------------------------------------------------------------------------
\* Claims about the order of FinishSynchronisation.

\* The place of a call in the order of a FinishSynchronisation (0: not made).
C33_Place(order, step) ==
  IF \E i \in 1..Len(order) : order[i] = step
  THEN CHOOSE i \in 1..Len(order) : order[i] = step
  ELSE 0

\* The step of C33: the calls of a FinishSynchronisation and what it leaves.
C33_FinishOrderStep ==
  ret'.op = "Finish"
  => IF ret'.ok
     THEN /\ IsOpen(openCount)
          /\ 0 < C33_Place(ret'.order, "SetImportedItemsEnabled")
          /\ C33_Place(ret'.order, "SetImportedItemsEnabled")
               < C33_Place(ret'.order, "CommitTransaction")
          /\ C33_Place(ret'.order, "CommitTransaction") < C33_Place(ret'.order, "Close")
          /\ C33_Place(ret'.order, "Close") < C33_Place(ret'.order, "Announce")
          /\ m_sourceIds' = {}
          /\ committed' = db'
          /\ db'.enabled
          /\ ~inTxn'
          /\ openCount' = openCount - 1
          /\ announced'.finished = announced.finished + 1
     ELSE /\ ret'.order = <<>>
          /\ UNCHANGED <<db, committed, announced, m_sourceIds>>

\* C33: FinishSynchronisation on an open session enables the import's items,
\* then commits the transaction, then closes the session and only then
\* announces that the scan has finished; the cache of source paths is empty
\* when it returns.
C33_FinishOrder == [][C33_FinishOrderStep]_vars

\* A run with an Add has been finished: the source was cached, the items were
\* disabled and a transaction was active before the call.
C33_Witness ==
  /\ ret.op = "Finish"
  /\ ret.ok
  /\ Len(ret.order) = 5
  /\ calls.adds > 0
  /\ committed.paths # {}
  /\ committed.enabled
  /\ m_sourceIds = {}
  /\ openCount = 0

----------------------------------------------------------------------------
\* Claims about Initialize and Deinitialize of the database manager.

\* The databases that have a status, and those whose update has ended.
C34_Attempted == DOMAIN databaseManager.m_dbStatus
C34_Ended ==
  {name \in C34_Attempted : databaseManager.m_dbStatus[name] \in {DB_READY, DB_FAILED}}

\* C34: Initialize(false) updates the databases in the order addons, view,
\* texture, music, video, pvr, epg, each one reaching Ready or Failed before
\* the next one starts, so that the texture database is updated before the
\* video database; Initialize(true) updates the addons database only.
C34_InitializeOrder ==
  LET order == <<"addons", "view", "texture", "music", "video", "pvr", "epg">>
  IN /\ \A i \in 1..7 : \A j \in 1..7 :
          i < j /\ order[j] \in C34_Attempted => order[i] \in C34_Ended
     /\ "video" \in C34_Attempted => "texture" \in C34_Ended
     /\ databaseManager.addonsOnly => C34_Attempted \subseteq {"addons"}
     /\ databaseManager.position = 0 /\ ~databaseManager.addonsOnly
          => C34_Attempted \in {{}, DatabaseNames}

\* The video database is updating after the update of the texture database
\* has failed, and the later ones have no status yet.
C34_Witness ==
  /\ databaseManager.position = 5
  /\ databaseManager.updating
  /\ databaseManager.m_dbStatus["video"] = DB_UPDATING
  /\ databaseManager.m_dbStatus["texture"] = DB_FAILED
  /\ C34_Attempted = {"addons", "view", "texture", "music", "video"}

\* The step of C35: what Deinitialize, on its own or at the start of
\* Initialize, leaves of the statuses, and what CanOpen answers during and
\* after an Initialize(true).
C35_DeinitializeClearsAllStep ==
  /\ databaseManager'.calls > databaseManager.calls
       => \A name \in DatabaseNames : ~CanOpen(name)'
  /\ databaseManager'.addonsOnly
       => \A name \in DatabaseNames \ {"addons"} : ~CanOpen(name)'

\* C35: Deinitialize clears the status of every database whatever addonsOnly
\* is, so that after Initialize(true) CanOpen is false for every database
\* other than addons, also for those that were Ready before the call.
C35_DeinitializeClearsAll == [][C35_DeinitializeClearsAllStep]_vars

\* After an Initialize(true) the addons database is ready again and the video
\* database, ready before the call, cannot be opened.
C35_Witness ==
  /\ databaseManager.calls = 2
  /\ databaseManager.addonsOnly
  /\ databaseManager.position = 0
  /\ CanOpen("addons")
  /\ databaseManager.recorded["video"] = DB_READY
  /\ ~CanOpen("video")

----------------------------------------------------------------------------
\* Claims about the enabling of the imported items.

\* The steps of C36 that disable the imported items: the end of the update of
\* the video database in Initialize(false), and a Deinitialize(false), either
\* whenever it is called or when it has opened the video database.
C36_InitializeDisablesStep ==
  /\ databaseManager.position > 0
  /\ databaseManager.updating
  /\ ~databaseManager'.updating
  /\ Databases[databaseManager.position] = "video"
  => ~db'.enabled /\ ~committed'.enabled

C36_DeinitializeDisablesStep ==
  /\ databaseManager'.calls > databaseManager.calls
  /\ ~databaseManager'.addonsOnly
  => ~db'.enabled /\ ~committed'.enabled

C36_DeinitializeOpenedDisablesStep ==
  /\ databaseManager'.calls > databaseManager.calls
  /\ ~databaseManager'.addonsOnly
  /\ databaseManager'.opened
  => ~db'.enabled /\ ~committed'.enabled

C36_Enabling == ~db.enabled /\ db'.enabled

C36_ByFinish ==
  /\ IsOpen(openCount)
  /\ ret'.op = "Finish"
  /\ ret'.ok
  /\ announced'.finishOk = announced.finishOk + 1

C36_NoOtherOperationEnables ==
  ret' # ret /\ ret'.op \in {"Start", "Add", "Update", "Remove", "Cleanup"}
  => db'.enabled = db.enabled

C36_EnabledOnlyByFinishStep ==
  /\ C36_InitializeDisablesStep
  /\ C36_DeinitializeDisablesStep
  /\ C36_Enabling => C36_ByFinish
  /\ C36_NoOtherOperationEnables

C36_EnabledByFinishOrSetEnabledStep ==
  /\ C36_InitializeDisablesStep
  /\ C36_DeinitializeOpenedDisablesStep
  /\ C36_Enabling => C36_ByFinish \/ (ret'.op = "SetEnabled" /\ ret'.ok)
  /\ C36_NoOtherOperationEnables

----------------------------------------------------------------------------
\* Claims about counts without a total.

\* The step of C37: a set that has a movie without the tag of the import the
\* call is for is still a set after the call.
C37_SharedSetSurvivesStep ==
  handler = "movieset" /\ ret'.op \in {"Remove", "Cleanup"}
    => \A s \in db.sets :
         GetMoviesInSet(db, s.id) \ GetImportedMoviesInSet(db, s.id, ret'.import) # {}
           => s.id \in {x.id : x \in db'.sets}

\* C37: RemoveImportedItem and the cleanup of the movie set handler never
\* delete a movie set that has at least one movie not linked to the import,
\* also when a count-only query succeeds without reporting a total.
C37_SharedSetSurvives == [][C37_SharedSetSurvivesStep]_vars

----------------------------------------------------------------------------
\* Claims about PrepareItem.

\* The number of calls of AddPath for a source identifier among the calls
\* made since the run's StartSynchronisation.
C38_AddPathCalls(order, sourceId) ==
  Cardinality({i \in 1..Len(order) : order[i] = sourceId})

\* The step of C38: when AddPath is called, what the run has seen so far, and
\* what StartSynchronisation and FinishSynchronisation leave of the cache.
C38_PathRegisteredOnceStep ==
  /\ ret'.op = "Prepare" /\ ret'.ok
     => /\ ret'.via = "AddPath" <=> CachedPathIds(m_sourceIds, ret'.import) = {}
        /\ ret'.via = "cache" => db' = db /\ ret'.parentId \in CachedPathIds(m_sourceIds, ret'.import)
        /\ CachedPathIds(m_sourceIds', ret'.import) = {ret'.parentId}
  /\ ret'.op = "Prepare"
     => \A sourceId \in Imports :
          /\ C38_AddPathCalls(ret'.order, sourceId) <= 1
          /\ Cardinality({p \in ret'.items : p[1] = sourceId}) <= 1
  /\ calls'.starts > calls.starts => m_sourceIds' = {}
  /\ ret'.op = "Finish" => m_sourceIds' = {}

\* C38: within a run PrepareItem calls AddPath for a source identifier only
\* when the identifier is not in the cache, so at most once however many
\* items are prepared; every prepared item of the source gets the same parent
\* path id; StartSynchronisation and FinishSynchronisation leave the cache
\* empty.
C38_PathRegisteredOnce == [][C38_PathRegisteredOnceStep]_vars

\* A second item of a source has been prepared from the cache: AddPath was
\* called once in the run and both items carry the id of the row it added.
C38_Witness ==
  /\ ret.op = "Prepare"
  /\ ret.ok
  /\ ret.via = "cache"
  /\ ret.order = <<ret.import>>
  /\ ret.items = {<<ret.import, ret.parentId>>}
  /\ ret.parentId > 0
  /\ db.pathIds[ret.import] = ret.parentId

----------------------------------------------------------------------------
\* Claims about the path of a synthesised tvshow.

\* C39: the path of the tvshow synthesised from an episode is the base path
\* if the episode's parent directory is the base path, the parent directory if
\* the grandparent is the base path, and the grandparent directory otherwise;
\* the path is gone up at most twice.
C39_ShowPathUpTwice ==
  ret.op = "ShowPath"
    => LET parent == GetParentPath(ret.path)
           grandparent == GetParentPath(GetParentPath(ret.path))
       IN /\ parent = ret.m_basePath => ret.m_strPath = ret.m_basePath
          /\ parent # ret.m_basePath /\ grandparent = ret.m_basePath
               => ret.m_strPath = parent
          /\ parent # ret.m_basePath /\ grandparent # ret.m_basePath
               => ret.m_strPath = grandparent
          /\ ret.m_strPath \in {ret.m_basePath, parent, grandparent}

\* An episode three directories below the base path: the tvshow gets the
\* grandparent directory, which is not the base path.
C39_Witness ==
  /\ ret.op = "ShowPath"
  /\ Len(ret.path) = Len(ret.m_basePath) + 3
  /\ IsPrefix(ret.m_basePath, ret.path)
  /\ ret.m_strPath = SubSeq(ret.path, 1, Len(ret.path) - 2)
  /\ ret.m_strPath # ret.m_basePath

====
